---- MODULE Spec2Model ----
(***************************************************************************)
(* Ledger and trade-settlement core of mini-openfx: balance rows, quotes,  *)
(* trades, and the calls in flight between their await points.             *)
(*                                                                         *)
(* Money is the scaled integer of money.ts (SCALE = 10^8).  The amounts    *)
(* and prices explored are small scaled integers so that every product     *)
(* a*b stays in the range of the checker's integers.  A request amount     *)
(* (a decimal number in the code) is a count of 10^-9 units, one digit     *)
(* finer than the scale, so that the rounding of toScaled is visible.      *)
(***************************************************************************)
EXTENDS Integers, Sequences, FiniteSets, TLC

VARIABLES now, book, balances, quotes, trades, calls, windows, cache

vars == <<now, book, balances, quotes, trades, calls, windows, cache>>

-----------------------------------------------------------------------------
(* Program constants *)

SCALE == 100000000

QUOTE_TTL_MS == 30000

RATE_LIMIT_MAX == 100

RATE_LIMIT_WINDOW_MS == 60000

PRICE_CACHE_TTL_MS == 5000

CURRENCIES == {"USDT", "EUR", "BTC"}

SUPPORTED_PAIRS == { [symbol |-> "EURUSDT", base |-> "EUR", quote |-> "USDT"],
                     [symbol |-> "BTCUSDT", base |-> "BTC", quote |-> "USDT"] }

Sides == {"BUY", "SELL"}

(* Bounds of the exploration *)

MaxCalls == 3

MaxQuotes == 1

\* instants the clock is observed at: creation, the deadline of a quote
\* created at 0, and the first instant past it
Times == {0, QUOTE_TTL_MS, QUOTE_TTL_MS + 1}

Accounts == {"acc1", "acc2"}

\* request amounts in 10^-9 units: 70 is 7 scaled units
Amounts == {70}

\* scaled prices 1.5 and 2.0 the source gives for a market order
Prices == {150000000, 200000000}

\* the book ticker the source holds at start: bid 1.0, ask 1.5 (scaled)
InitialBook == [bidPrice |-> 100000000, askPrice |-> 150000000]

\* book tickers the source may move to
Books == { InitialBook, [bidPrice |-> 150000000, askPrice |-> 200000000] }

\* ordered (base, quote) pairs offered to the operations
PairInputs == { <<"EUR", "USDT">> }

\* balance rows present at start: acc1 holds USDT and EUR, acc2 holds USDT
InitialRows == { [id |-> 1, accountId |-> "acc1", currency |-> "USDT", amount |-> 20],
                 [id |-> 2, accountId |-> "acc1", currency |-> "EUR",  amount |-> 10],
                 [id |-> 3, accountId |-> "acc2", currency |-> "USDT", amount |-> 14] }

\* statement of the commit routine at which the store may fail
Faults == {"credit", "quote", "insert"}

-----------------------------------------------------------------------------
(* Scaled Money *)

\* Math.round(value * SCALE) for a value given in 10^-9 units
toScaled(value) == (value + 5) \div 10

\* variant: the quotient rounded up instead of truncated
scaledMultiplyCeil(a, b) == (a * b + SCALE - 1) \div SCALE

\* the quotient of two BigInt: rounded toward zero
bigIntDivide(n, d) ==
    IF (n >= 0) = (d > 0) THEN (IF n >= 0 THEN n ELSE -n) \div (IF d > 0 THEN d ELSE -d)
    ELSE -((IF n >= 0 THEN n ELSE -n) \div (IF d > 0 THEN d ELSE -d))

scaledMultiply(a, b) == bigIntDivide(a * b, SCALE)

\* scaledDivide: the Error of b === 0, else the BigInt quotient
scaledDivide(a, b) ==
    IF b = 0 THEN [err |-> "Division by zero", value |-> 0]
    ELSE [err |-> "none", value |-> bigIntDivide(a * SCALE, b)]

-----------------------------------------------------------------------------
(* Numbers: the IEEE 754 doubles that toScaled, fromScaled and parsePrice    *)
(* compute with.  A natural number beyond the range of the machine integers *)
(* is a sequence of limbs in base 10^4, least significant first, without    *)
(* leading zero limbs (<<>> is 0).  A double is held exactly, as num * 2^exp *)
(* with num a natural below 2^53 + 1.  Only finite, non-negative, normal    *)
(* doubles occur.                                                           *)

RECURSIVE Norm(_)
Norm(x) == IF x # <<>> /\ x[Len(x)] = 0 THEN Norm(SubSeq(x, 1, Len(x) - 1)) ELSE x

RECURSIVE LessTop(_, _)
LessTop(a, b) ==
    IF a = <<>> THEN FALSE
    ELSE IF a[Len(a)] # b[Len(b)] THEN a[Len(a)] < b[Len(b)]
    ELSE LessTop(SubSeq(a, 1, Len(a) - 1), SubSeq(b, 1, Len(b) - 1))

Less(x, y) ==
    LET a == Norm(x)
        b == Norm(y)
    IN  IF Len(a) # Len(b) THEN Len(a) < Len(b) ELSE LessTop(a, b)

RECURSIVE MulAdd(_, _, _)
\* x * m + c for 0 <= m, c <= 2^16
MulAdd(x, m, c) ==
    IF x = <<>> THEN (IF c = 0 THEN <<>> ELSE <<c % 10000>> \o MulAdd(<<>>, m, c \div 10000))
    ELSE <<(x[1] * m + c) % 10000>> \o MulAdd(Tail(x), m, (x[1] * m + c) \div 10000)

RECURSIVE DivRem(_, _, _)
\* quotient and remainder of rem * 10^(4 * Len(x)) + x by m, for rem < m <= 2^16
DivRem(x, m, rem) ==
    IF x = <<>> THEN [q |-> <<>>, r |-> rem]
    ELSE LET t    == rem * 10000 + x[Len(x)]
             rest == DivRem(SubSeq(x, 1, Len(x) - 1), m, t % m)
         IN  [q |-> Append(rest.q, t \div m), r |-> rest.r]

\* floor(x / m) and whether the division left a remainder
DivSmall(x, m) ==
    LET d == DivRem(x, m, 0)
    IN  [q |-> Norm(d.q), sticky |-> d.r # 0]

RECURSIVE MulPow2(_, _)
\* x * 2^k
MulPow2(x, k) ==
    IF k = 0 THEN Norm(x)
    ELSE IF k >= 16 THEN MulPow2(MulAdd(x, 65536, 0), k - 16)
    ELSE Norm(MulAdd(x, 2 ^ k, 0))

RECURSIVE DivPow2(_, _)
\* floor(x / 2^k) and whether a remainder was dropped
DivPow2(x, k) ==
    IF k = 0 THEN [q |-> Norm(x), sticky |-> FALSE]
    ELSE LET step == IF k >= 16 THEN 16 ELSE k
             d    == DivSmall(x, 2 ^ step)
             rest == DivPow2(d.q, k - step)
         IN  [q |-> rest.q, sticky |-> d.sticky \/ rest.sticky]

\* floor(x / 10^w) and whether a remainder was dropped
DivPow10(x, w) ==
    LET limbs == w \div 4
        low   == SubSeq(x, 1, IF limbs < Len(x) THEN limbs ELSE Len(x))
        high  == SubSeq(x, limbs + 1, Len(x))
        d     == DivSmall(high, 10 ^ (w % 4))
    IN  [q |-> d.q, sticky |-> d.sticky \/ Norm(low) # <<>>]

\* floor(n * 2^k / 10^w) and whether a remainder was dropped
Scaled(n, k, w) ==
    IF k >= 0 THEN DivPow10(MulPow2(n, k), w)
    ELSE LET a == DivPow2(n, -k)
             b == DivPow10(a.q, w)
         IN  [q |-> b.q, sticky |-> a.sticky \/ b.sticky]

\* 2^53 and 2^54: a double has 53 significant bits
TwoTo53 == <<992, 5474, 1992, 9007>>

TwoTo54 == <<1984, 948, 3985, 8014, 1>>

\* the binary exponents the quotients of this model are scaled by
Shifts == -40 .. 80

\* the double nearest to n * 2^e / 10^w, ties to the even significand: the
\* quotient is taken to 54 bits, the last one being the half
nearestDouble(n, w, e) ==
    IF Norm(n) = <<>> THEN [num |-> <<>>, exp |-> 0]
    ELSE LET k    == CHOOSE j \in Shifts : /\ ~Less(Scaled(n, j, w).q, TwoTo53)
                                            /\ Less(Scaled(n, j, w).q, TwoTo54)
             q2   == Scaled(n, k, w)
             q    == DivSmall(q2.q, 2).q
             half == q2.q[1] % 2 = 1
             up   == half /\ (q2.sticky \/ q[1] % 2 = 1)
         IN  [num |-> IF up THEN Norm(MulAdd(q, 1, 1)) ELSE q, exp |-> e - k + 1]

\* Math.floor of a double
mathFloor(x) == IF x.exp >= 0 THEN MulPow2(x.num, x.exp) ELSE DivPow2(x.num, -x.exp).q

\* Math.round of a double: floor(x + 0.5)
mathRound(x) ==
    IF x.exp >= 0 THEN MulPow2(x.num, x.exp)
    ELSE DivSmall(MulAdd(DivPow2(x.num, -x.exp - 1).q, 1, 1), 2).q

\* x * SCALE and s / SCALE in double arithmetic; SCALE = 10^8 is a double
timesScale(x) == nearestDouble(Norm(<<0, 0>> \o x.num), 0, x.exp)

overScale(s) == nearestDouble(s, 8, 0)

\* Number.prototype.toString of a non-negative integer: its decimal digits
RECURSIVE toString(_)
toString(n) == IF n < 10 THEN <<n>> ELSE toString(n \div 10) \o <<n % 10>>

RECURSIVE padStart(_, _, _)
padStart(str, targetLength, fill) ==
    IF Len(str) >= targetLength THEN str ELSE padStart(<<fill>> \o str, targetLength, fill)

RECURSIVE toStringBig(_)
toStringBig(x) ==
    IF Len(x) = 0 THEN <<0>>
    ELSE IF Len(x) = 1 THEN toString(x[1])
    ELSE toStringBig(Tail(x)) \o padStart(toString(x[1]), 4, 0)

\* the natural a digit string denotes
RECURSIVE fromDigits(_)
fromDigits(ds) ==
    IF ds = <<>> THEN <<>>
    ELSE LET k    == IF Len(ds) < 4 THEN Len(ds) ELSE 4
             low  == SubSeq(ds, Len(ds) - k + 1, Len(ds))
             limb == IF k = 1 THEN low[1]
                     ELSE IF k = 2 THEN low[1] * 10 + low[2]
                     ELSE IF k = 3 THEN low[1] * 100 + low[2] * 10 + low[3]
                     ELSE low[1] * 1000 + low[2] * 100 + low[3] * 10 + low[4]
         IN  Norm(<<limb>> \o fromDigits(SubSeq(ds, 1, Len(ds) - k)))

\* A decimal string "integer.fraction" is the pair of its two digit strings.
\* parseFloat: the double nearest to the decimal
parseFloat(str) ==
    nearestDouble(fromDigits(str.integer \o str.fraction), Len(str.fraction), 0)

\* toScaled on a double: Math.round(value * SCALE)
toScaledNumber(value) == mathRound(timesScale(value))

\* fromScaled of a scaled integer s >= 0 below 2^53
fromScaled(scaled) ==
    LET integer  == mathFloor(overScale(scaled))
        low      == [k \in 1 .. 2 |-> IF k <= Len(scaled) THEN scaled[k] ELSE 0]
        fraction == low[1] + 10000 * low[2]
    IN  [integer |-> toStringBig(integer), fraction |-> padStart(toString(fraction), 8, 0)]

parsePrice(priceStr) == toScaledNumber(parseFloat(priceStr))

-----------------------------------------------------------------------------
(* Price source.  A request to it ends in one of FetchOutcomes: a response  *)
(* with res.ok, a response with another status, or a rejected fetch (no     *)
(* response at all, or a body that res.json() cannot parse).                *)

FetchOutcomes == {"ok", "status", "rejected"}

\* what fetchBookTicker and fetchTickerPrice throw: priceFetchFailed on
\* !res.ok; a rejected fetch is not caught and reaches the route's
\* handleError as an error that is not an AppError
fetchFailure(fetched) ==
    IF fetched = "status" THEN "PRICE_FETCH_FAILED" ELSE "INTERNAL_ERROR"

(* The venues.  Math.round(x * 1.0001) and its like are computed on the     *)
(* integers: x plus or minus x/10000 (x/5000) rounded half up.              *)

VenueQuote(source, bid, ask, rank) ==
    [source |-> source, bid |-> bid, ask |-> ask, rank |-> rank]

fetchBinance(binanceBid, binanceAsk) ==
    VenueQuote("Binance", binanceBid, binanceAsk, 1)

fetchMassiveFX(binanceBid, binanceAsk) ==
    VenueQuote("MassiveFX", binanceBid - ((binanceBid + 4999) \div 10000),
               binanceAsk + ((binanceAsk + 5000) \div 10000), 2)

fetchCoinGecko(binanceBid, binanceAsk) ==
    VenueQuote("CoinGecko", binanceBid - ((binanceBid + 2499) \div 5000),
               binanceAsk + ((binanceAsk + 2500) \div 5000), 3)

\* variant: the comparator of the sort with its operands exchanged
getBestQuoteReversed(binanceBid, binanceAsk, side) ==
    LET venues == { fetchBinance(binanceBid, binanceAsk),
                    fetchMassiveFX(binanceBid, binanceAsk),
                    fetchCoinGecko(binanceBid, binanceAsk) }
        before(a, b) == IF side = "BUY"
                        THEN a.ask > b.ask \/ (a.ask = b.ask /\ a.rank <= b.rank)
                        ELSE a.bid < b.bid \/ (a.bid = b.bid /\ a.rank <= b.rank)
        best == CHOOSE a \in venues : \A b \in venues : before(a, b)
    IN  [ price    |-> IF side = "BUY" THEN best.ask ELSE best.bid,
          bidPrice |-> best.bid, askPrice |-> best.ask, source |-> best.source,
          allQuotes |-> venues ]

\* quotes.sort(...)[0]: the lowest ask for a BUY, the highest bid for a
\* SELL; the sort is stable, so of equal quotes the first fetched wins.
\* The three venue functions always fulfil, so quotes holds all three.
getBestQuote(binanceBid, binanceAsk, side) ==
    LET venues == { fetchBinance(binanceBid, binanceAsk),
                    fetchMassiveFX(binanceBid, binanceAsk),
                    fetchCoinGecko(binanceBid, binanceAsk) }
        before(a, b) == IF side = "BUY"
                        THEN a.ask < b.ask \/ (a.ask = b.ask /\ a.rank <= b.rank)
                        ELSE a.bid > b.bid \/ (a.bid = b.bid /\ a.rank <= b.rank)
        best == CHOOSE a \in venues : \A b \in venues : before(a, b)
    IN  [ price    |-> IF side = "BUY" THEN best.ask ELSE best.bid,
          bidPrice |-> best.bid, askPrice |-> best.ask, source |-> best.source,
          allQuotes |-> venues ]

\* getExecutionPrice on the book ticker the source returned
getExecutionPrice(bookTicker, side) ==
    getBestQuote(bookTicker.bidPrice, bookTicker.askPrice, side)

-----------------------------------------------------------------------------
(* Balance Ledger: the balances table is a set of rows *)

RowsOf(bals, accountId, currency) ==
    { r \in bals : r.accountId = accountId /\ r.currency = currency }

getBalance(bals, accountId, currency) ==
    LET rows == RowsOf(bals, accountId, currency)
    IN  IF rows = {} THEN 0 ELSE (CHOOSE r \in rows : TRUE).amount

\* variant: the UPDATE without "amount >= ?" in its WHERE clause
debitUpdateNoGuard(bals, accountId, currency, amount) ==
    LET hit == RowsOf(bals, accountId, currency)
    IN  [ changes  |-> Cardinality(hit),
          balances |-> (bals \ hit) \cup
                       { [r EXCEPT !.amount = @ - amount] : r \in hit } ]

\* UPDATE balances SET amount = amount - ? WHERE account AND currency AND amount >= ?
debitUpdate(bals, accountId, currency, amount) ==
    LET hit == { r \in RowsOf(bals, accountId, currency) : r.amount >= amount }
    IN  [ changes  |-> Cardinality(hit),
          balances |-> (bals \ hit) \cup
                       { [r EXCEPT !.amount = @ - amount] : r \in hit } ]

\* variant: an UPDATE that changed no row is not an error
debitNoThrow(bals, accountId, currency, amount) ==
    LET result == debitUpdate(bals, accountId, currency, amount)
    IN  [ok |-> TRUE, err |-> "none", balances |-> result.balances]

debit(bals, accountId, currency, amount) ==
    LET result == debitUpdate(bals, accountId, currency, amount)
    IN  IF result.changes = 0
        THEN [ok |-> FALSE, err |-> "INSUFFICIENT_BALANCE", balances |-> bals]
        ELSE [ok |-> TRUE,  err |-> "none", balances |-> result.balances]

\* variant: on conflict the amount is overwritten, not incremented
creditOverwrite(bals, accountId, currency, amount) ==
    LET hit == RowsOf(bals, accountId, currency)
    IN  IF hit = {}
        THEN bals \cup { [id |-> Cardinality(bals) + 1, accountId |-> accountId,
                          currency |-> currency, amount |-> amount] }
        ELSE (bals \ hit) \cup { [r EXCEPT !.amount = amount] : r \in hit }

\* variant: the conflict target is the currency alone
creditAnyAccount(bals, accountId, currency, amount) ==
    LET hit == { r \in bals : r.currency = currency }
    IN  IF hit = {}
        THEN bals \cup { [id |-> Cardinality(bals) + 1, accountId |-> accountId,
                          currency |-> currency, amount |-> amount] }
        ELSE (bals \ hit) \cup { [r EXCEPT !.amount = @ + amount] : r \in hit }

\* variant: a plain INSERT on a table without the unique index
creditInsert(bals, accountId, currency, amount) ==
    bals \cup { [id |-> Cardinality(bals) + 1, accountId |-> accountId,
                 currency |-> currency, amount |-> amount] }

\* variant: a plain UPDATE, which does nothing when the row is missing
creditNoInsert(bals, accountId, currency, amount) ==
    LET hit == RowsOf(bals, accountId, currency)
    IN  (bals \ hit) \cup { [r EXCEPT !.amount = @ + amount] : r \in hit }

\* INSERT ... ON CONFLICT (account_id, currency) DO UPDATE SET amount = amount + ?
credit(bals, accountId, currency, amount) ==
    LET hit == RowsOf(bals, accountId, currency)
    IN  IF hit = {}
        THEN bals \cup { [id |-> Cardinality(bals) + 1, accountId |-> accountId,
                          currency |-> currency, amount |-> amount] }
        ELSE (bals \ hit) \cup { [r EXCEPT !.amount = @ + amount] : r \in hit }

-----------------------------------------------------------------------------
(* Trade Execution *)

DbOf(b, q, t) == [balances |-> b, quotes |-> q, trades |-> t]

\* variant: the UPDATE matches no row
updateQuoteStatusNone(qs, quoteId, status) == qs

\* variant: the UPDATE also rewrites expires_at
updateQuoteStatusAndExpiry(qs, quoteId, status) ==
    IF quoteId \in DOMAIN qs
    THEN [qs EXCEPT ![quoteId].status = status, ![quoteId].expiresAt = 0]
    ELSE qs

\* UPDATE quotes SET status = ? WHERE id = ?
updateQuoteStatus(qs, quoteId, status) ==
    IF quoteId \in DOMAIN qs THEN [qs EXCEPT ![quoteId].status = status] ELSE qs

\* variant: the row replaces the latest one instead of being added
insertTradeReplace(ts, row) ==
    IF ts = <<>> THEN <<row>> ELSE [ts EXCEPT ![Len(ts)] = row]

\* INSERT INTO trades
insertTrade(ts, row) == Append(ts, row)

\* The body of executeTradeTx, statement by statement.  fault names the
\* statement whose run() throws ("none": no store failure); the record
\* returned carries the database as the body left it.
executeTradeTxBody(db, accountId, baseCurrency, quoteCurrency, side, baseAmount, quoteAmount, price, type, quoteId, tradeId, at, fault) ==
    LET debitCurrency  == IF side = "BUY" THEN quoteCurrency ELSE baseCurrency
        debitAmount    == IF side = "BUY" THEN quoteAmount ELSE baseAmount
        creditCurrency == IF side = "BUY" THEN baseCurrency ELSE quoteCurrency
        creditAmount   == IF side = "BUY" THEN baseAmount ELSE quoteAmount
        d  == debit(db.balances, accountId, debitCurrency, debitAmount)
        b2 == credit(d.balances, accountId, creditCurrency, creditAmount)
        q3 == IF quoteId # 0
              THEN updateQuoteStatus(db.quotes, quoteId, "EXECUTED")
              ELSE db.quotes
        t4 == insertTrade(db.trades,
                     [ id |-> tradeId, accountId |-> accountId, quoteId |-> quoteId,
                       type |-> type, baseCurrency |-> baseCurrency,
                       quoteCurrency |-> quoteCurrency, side |-> side,
                       baseAmount |-> baseAmount, quoteAmount |-> quoteAmount,
                       price |-> price, executedAt |-> at, createdAt |-> at ])
    IN  IF ~d.ok THEN [err |-> d.err, db |-> db]
        ELSE IF fault = "credit"
        THEN [err |-> "INTERNAL_ERROR", db |-> DbOf(d.balances, db.quotes, db.trades)]
        ELSE IF fault = "quote"
        THEN [err |-> "INTERNAL_ERROR", db |-> DbOf(b2, db.quotes, db.trades)]
        ELSE IF fault = "insert"
        THEN [err |-> "INTERNAL_ERROR", db |-> DbOf(b2, q3, db.trades)]
        ELSE [err |-> "none", db |-> DbOf(b2, q3, t4)]

\* variant: the body run without the transaction wrapper
transactionNoRollback(db, outcome) == outcome

\* sqlite.transaction(fn): commit what fn did, or roll back when fn threw
transaction(db, outcome) ==
    IF outcome.err = "none" THEN outcome ELSE [err |-> outcome.err, db |-> db]

executeTradeTx(db, accountId, baseCurrency, quoteCurrency, side, baseAmount, quoteAmount, price, type, quoteId, tradeId, at, fault) ==
    transaction(db, executeTradeTxBody(db, accountId, baseCurrency, quoteCurrency,
                                       side, baseAmount, quoteAmount, price, type,
                                       quoteId, tradeId, at, fault))

\* variant: the quote amount recomputed with the quotient rounded up
executeTradeRoundUp(db, at, accountId, baseCurrency, quoteCurrency, side, baseAmount, price, type, quoteId, fault) ==
    LET quoteAmount == scaledMultiplyCeil(baseAmount, price)
        tradeId     == Len(db.trades) + 1
    IN  executeTradeTx(db, accountId, baseCurrency, quoteCurrency, side, baseAmount,
                       quoteAmount, price, type, quoteId, tradeId, at, fault)

executeTrade(db, at, accountId, baseCurrency, quoteCurrency, side, baseAmount, price, type, quoteId, fault) ==
    LET quoteAmount == scaledMultiply(baseAmount, price)
        tradeId     == Len(db.trades) + 1
    IN  executeTradeTx(db, accountId, baseCurrency, quoteCurrency, side, baseAmount,
                       quoteAmount, price, type, quoteId, tradeId, at, fault)

\* SUPPORTED_PAIRS.some(...) of validatePair and executeMarketTrade
pairFound(baseCurrency, quoteCurrency) ==
    \E p \in SUPPORTED_PAIRS :
        \/ p.base = baseCurrency /\ p.quote = quoteCurrency
        \/ p.quote = baseCurrency /\ p.base = quoteCurrency

-----------------------------------------------------------------------------------------------------------------------------------------------------
(* Calls.  A call is appended to calls when it starts.  req is the request *)
(* of createQuote and executeMarketTrade, price the price the source gave  *)
(* it (0: no price was obtained), row the result of the SELECT of getQuote *)
(* and executeRfqTrade (<<>> or <<row>>), res the outcome.                 *)

Request(baseCurrency, quoteCurrency, side, amount) ==
    [baseCurrency |-> baseCurrency, quoteCurrency |-> quoteCurrency,
     side |-> side, amount |-> amount]

NoRequest == Request("-", "-", "-", 0)

Call(op, accountId, quoteId, pc, row, req, price, res) ==
    [op |-> op, accountId |-> accountId, quoteId |-> quoteId, pc |-> pc,
     row |-> row, req |-> req, price |-> price, res |-> res]

selectQuote(qs, quoteId) ==
    IF quoteId \in DOMAIN qs THEN <<qs[quoteId]>> ELSE <<>>

QuoteIds == 1 .. MaxQuotes

\* trade ids a getTrade asks for
TradeIds == {1}

Init ==
    /\ now = 0
    /\ book = InitialBook
    /\ windows = [a \in Accounts |-> <<>>]
    /\ cache = <<>>
    /\ balances = InitialRows
    /\ quotes = <<>>
    /\ trades = <<>>
    /\ calls = <<>>

\* Date.now() moves on between two steps
Tick ==
    /\ \E t \in Times :
          /\ t > now
          /\ now' = t
    /\ UNCHANGED <<cache, windows, book, balances, quotes, trades, calls>>

\* the source's book ticker moves between two steps
PriceMove ==
    /\ \E b \in Books :
          /\ b # book
          /\ book' = b
    /\ UNCHANGED <<cache, windows, now, balances, quotes, trades, calls>>

\* createQuote: validatePair, price lookup, INSERT of the OPEN quote
createQuote(accountId, baseCurrency, quoteCurrency, side, amount, fetched) ==
    LET req   == Request(baseCurrency, quoteCurrency, side, amount)
        price == getExecutionPrice(book, side).price
    IN
    /\ Len(calls) < MaxCalls
    /\ IF ~pairFound(baseCurrency, quoteCurrency)
       THEN /\ calls' = Append(calls, Call("createQuote", accountId, 0, "done", <<>>,
                                           req, 0, "PAIR_NOT_SUPPORTED"))
            /\ UNCHANGED quotes
       ELSE IF fetched # "ok"
       THEN /\ calls' = Append(calls, Call("createQuote", accountId, 0, "done", <<>>,
                                           req, 0, fetchFailure(fetched)))
            /\ UNCHANGED quotes
       ELSE LET baseAmount  == toScaled(amount)
                quoteAmount == scaledMultiply(baseAmount, price)
                id          == Len(quotes) + 1
            IN  /\ Len(quotes) < MaxQuotes
                /\ quotes' = Append(quotes,
                       [ id |-> id, accountId |-> accountId,
                         baseCurrency |-> baseCurrency,
                         quoteCurrency |-> quoteCurrency, side |-> side,
                         baseAmount |-> baseAmount, quoteAmount |-> quoteAmount,
                         price |-> price, expiresAt |-> now + QUOTE_TTL_MS,
                         status |-> "OPEN", createdAt |-> now ])
                /\ calls' = Append(calls, Call("createQuote", accountId, id, "done",
                                               <<>>, req, price, "ok"))
    /\ UNCHANGED <<cache, windows, now, book, balances, trades>>

\* getQuote up to its first await: the SELECT
getQuoteSelect(accountId, quoteId) ==
    /\ Len(calls) < MaxCalls
    /\ calls' = Append(calls, Call("getQuote", accountId, quoteId, "selected",
                                   selectQuote(quotes, quoteId), NoRequest, 0,
                                   "pending"))
    /\ UNCHANGED <<cache, windows, now, book, balances, quotes, trades>>

\* getQuote after the SELECT: ownership check and the expiry test
getQuoteCheck(i) ==
    /\ i \in DOMAIN calls
    /\ calls[i].op = "getQuote" /\ calls[i].pc = "selected"
    /\ LET c == calls[i]
       IN  IF c.row = <<>> \/ c.row[1].accountId # c.accountId
           THEN calls' = [calls EXCEPT ![i].pc = "done", ![i].res = "NOT_FOUND"]
           ELSE IF c.row[1].status = "OPEN" /\ now > c.row[1].expiresAt
           THEN calls' = [calls EXCEPT ![i].pc = "updating"]
           ELSE calls' = [calls EXCEPT ![i].pc = "done", ![i].res = c.row[1].status]
    /\ UNCHANGED <<cache, windows, now, book, balances, quotes, trades>>

\* getQuote's awaited UPDATE quotes SET status = 'EXPIRED' WHERE id = ?
getQuoteUpdate(i) ==
    /\ i \in DOMAIN calls
    /\ calls[i].op = "getQuote" /\ calls[i].pc = "updating"
    /\ quotes' = updateQuoteStatus(quotes, calls[i].quoteId, "EXPIRED")
    /\ calls' = [calls EXCEPT ![i].pc = "done", ![i].res = "EXPIRED",
                              ![i].row = <<[@[1] EXCEPT !.status = "EXPIRED"]>>]
    /\ UNCHANGED <<cache, windows, now, book, balances, trades>>

\* executeRfqTrade up to its await: the SELECT of the quote
executeRfqTradeSelect(accountId, quoteId) ==
    /\ Len(calls) < MaxCalls
    /\ calls' = Append(calls, Call("rfq", accountId, quoteId, "selected",
                                   selectQuote(quotes, quoteId), NoRequest, 0,
                                   "pending"))
    /\ UNCHANGED <<cache, windows, now, book, balances, quotes, trades>>

\* variant: the checks without the ownership test
rfqCheckNoOwner(rows, accountId, at) ==
    IF rows = <<>> THEN "NOT_FOUND"
    ELSE IF rows[1].status = "EXECUTED" THEN "QUOTE_ALREADY_EXECUTED"
    ELSE IF rows[1].status = "EXPIRED" \/ at > rows[1].expiresAt THEN "QUOTE_EXPIRED"
    ELSE "execute"

\* variant: the expiry test without the clock
rfqCheckNoClock(rows, accountId, at) ==
    IF rows = <<>> THEN "NOT_FOUND"
    ELSE IF rows[1].accountId # accountId THEN "NOT_FOUND"
    ELSE IF rows[1].status = "EXECUTED" THEN "QUOTE_ALREADY_EXECUTED"
    ELSE IF rows[1].status = "EXPIRED" THEN "QUOTE_EXPIRED"
    ELSE "execute"

\* variant: the expiry test ahead of the EXECUTED test
rfqCheckExpiryFirst(rows, accountId, at) ==
    IF rows = <<>> THEN "NOT_FOUND"
    ELSE IF rows[1].accountId # accountId THEN "NOT_FOUND"
    ELSE IF rows[1].status = "EXPIRED" \/ at > rows[1].expiresAt THEN "QUOTE_EXPIRED"
    ELSE IF rows[1].status = "EXECUTED" THEN "QUOTE_ALREADY_EXECUTED"
    ELSE "execute"

\* variant: the checks without the EXECUTED test
rfqCheckNoExecuted(rows, accountId, at) ==
    IF rows = <<>> THEN "NOT_FOUND"
    ELSE IF rows[1].accountId # accountId THEN "NOT_FOUND"
    ELSE IF rows[1].status = "EXPIRED" \/ at > rows[1].expiresAt THEN "QUOTE_EXPIRED"
    ELSE "execute"

\* The checks of executeRfqTrade on the row it read: the error it throws,
\* or "execute" when it goes on to executeTrade
rfqCheck(rows, accountId, at) ==
    IF rows = <<>> THEN "NOT_FOUND"
    ELSE IF rows[1].accountId # accountId THEN "NOT_FOUND"
    ELSE IF rows[1].status = "EXECUTED" THEN "QUOTE_ALREADY_EXECUTED"
    ELSE IF rows[1].status = "EXPIRED" \/ at > rows[1].expiresAt THEN "QUOTE_EXPIRED"
    ELSE "execute"

\* executeRfqTrade after the SELECT: the checks, the lazy expiry, the commit
\* The expiry check reads Date.now() (now); executeTrade reads it a second
\* time for executedAt, in the same run of the handler but possibly a
\* millisecond later.
executeRfqTradeAt(i, fault, executedAt) ==
    /\ i \in DOMAIN calls
    /\ calls[i].op = "rfq" /\ calls[i].pc = "selected"
    /\ executedAt \in {now, now + 1}
    /\ rfqCheck(calls[i].row, calls[i].accountId, now) # "execute" => executedAt = now
    /\ now' = executedAt
    /\ LET c  == calls[i]
           db == DbOf(balances, quotes, trades)
           verdict == rfqCheck(c.row, c.accountId, now)
           finish(res, d) ==
               /\ calls' = [calls EXCEPT ![i].pc = "done", ![i].res = res]
               /\ balances' = d.balances
               /\ quotes' = d.quotes
               /\ trades' = d.trades
       IN  IF verdict = "QUOTE_EXPIRED"
           THEN finish(verdict,
                       IF c.row[1].status # "EXPIRED"
                       THEN DbOf(balances,
                                 updateQuoteStatus(quotes, c.quoteId, "EXPIRED"),
                                 trades)
                       ELSE db)
           ELSE IF verdict # "execute" THEN finish(verdict, db)
           ELSE LET quoteRow == c.row[1]
                    r == executeTrade(db, executedAt, c.accountId, quoteRow.baseCurrency,
                                      quoteRow.quoteCurrency, quoteRow.side,
                                      quoteRow.baseAmount, quoteRow.price,
                                      "RFQ", c.quoteId, fault)
                IN  finish(IF r.err = "none" THEN "ok" ELSE r.err, r.db)
    /\ UNCHANGED <<cache, windows, book>>

\* executeRfqTrade when the clock shows the same millisecond at both reads
executeRfqTrade(i, fault) == executeRfqTradeAt(i, fault, now)

\* executeMarketTrade: pair check, price lookup, then the commit
\* the body of executeMarketTrade on the store db at time at: its result, the
\* price it traded at and the store it leaves
marketTrade(db, at, accountId, baseCurrency, quoteCurrency, side, amount, fetched, price, fault) ==
    IF ~pairFound(baseCurrency, quoteCurrency)
    THEN [res |-> "PAIR_NOT_SUPPORTED", price |-> 0, db |-> db]
    ELSE IF fetched # "ok" THEN [res |-> fetchFailure(fetched), price |-> 0, db |-> db]
    ELSE LET r == executeTrade(db, at, accountId, baseCurrency, quoteCurrency,
                               side, toScaled(amount), price, "MARKET", 0, fault)
         IN  [res |-> IF r.err = "none" THEN "ok" ELSE r.err, price |-> price, db |-> r.db]

executeMarketTrade(accountId, baseCurrency, quoteCurrency, side, amount, fetched, price, fault) ==
    /\ Len(calls) < MaxCalls
    /\ LET m == marketTrade(DbOf(balances, quotes, trades), now, accountId, baseCurrency,
                            quoteCurrency, side, amount, fetched, price, fault)
       IN  /\ calls' = Append(calls, Call("market", accountId, 0, "done", <<>>,
                                          Request(baseCurrency, quoteCurrency, side, amount),
                                          m.price, m.res))
           /\ balances' = m.db.balances
           /\ quotes' = m.db.quotes
           /\ trades' = m.db.trades
    /\ UNCHANGED <<cache, windows, now, book>>

\* getTrade: the SELECT by id and the ownership test on the row it read;
\* trade rows never change, so the read and the test are one step
getTrade(accountId, tradeId) ==
    LET rows == IF tradeId \in DOMAIN trades THEN <<trades[tradeId]>> ELSE <<>>
    IN  /\ Len(calls) < MaxCalls
        /\ calls' = Append(calls, Call("getTrade", accountId, tradeId, "done", rows,
                                       NoRequest, 0,
                                       IF rows = <<>> \/ rows[1].accountId # accountId
                                       THEN "NOT_FOUND" ELSE "ok"))
        /\ UNCHANGED <<cache, windows, now, book, balances, quotes, trades>>

\* variant: the SELECT without its WHERE clause
selectTradesAll(ts, accountId) == DOMAIN ts

\* SELECT ... FROM trades WHERE account_id = ?: the positions of the rows
selectTrades(ts, accountId) == { n \in DOMAIN ts : ts[n].accountId = accountId }

\* ORDER BY executed_at DESC: the orders the store may return the selected
\* rows in; rows with equal executed_at come in any order
orderByExecutedAtDesc(ts, selected) ==
    { f \in [1 .. Cardinality(selected) -> selected] :
         /\ \A i, j \in DOMAIN f : i # j => f[i] # f[j]
         /\ \A i, j \in DOMAIN f : i < j => ts[f[i]].executedAt >= ts[f[j]].executedAt }

\* getTradeHistory: the rows come from one SELECT and are mapped in place
getTradeHistory(accountId) ==
    /\ Len(calls) < MaxCalls
    /\ \E f \in orderByExecutedAtDesc(trades, selectTrades(trades, accountId)) :
          calls' = Append(calls, Call("getTradeHistory", accountId, 0, "done",
                                      [i \in DOMAIN f |-> trades[f[i]]],
                                      NoRequest, 0, "ok"))
    /\ UNCHANGED <<cache, windows, now, book, balances, quotes, trades>>

Next ==
    \/ Tick
    \/ \E a \in Accounts, p \in PairInputs, s \in Sides, m \in Amounts :
          createQuote(a, p[1], p[2], s, m, "ok")
    \/ \E a \in Accounts, q \in QuoteIds : getQuoteSelect(a, q)
    \/ \E i \in 1 .. MaxCalls : getQuoteCheck(i)
    \/ \E i \in 1 .. MaxCalls : getQuoteUpdate(i)
    \/ \E a \in Accounts, q \in QuoteIds : executeRfqTradeSelect(a, q)
    \/ \E i \in 1 .. MaxCalls : executeRfqTrade(i, "none")
    \/ \E a \in Accounts, p \in PairInputs, s \in Sides, m \in Amounts, pr \in Prices :
          executeMarketTrade(a, p[1], p[2], s, m, "ok", pr, "none")

Spec == Init /\ [][Next]_vars

\* The trade path over a store that may fail inside the commit routine
FaultNext ==
    \/ \E a \in Accounts, p \in PairInputs, s \in Sides, m \in Amounts :
          createQuote(a, p[1], p[2], s, m, "ok")
    \/ \E a \in Accounts, q \in QuoteIds : executeRfqTradeSelect(a, q)
    \/ \E i \in 1 .. MaxCalls, x \in Faults \cup {"none"} : executeRfqTrade(i, x)
    \/ \E a \in Accounts, p \in PairInputs, s \in Sides, m \in Amounts, pr \in Prices,
          x \in Faults \cup {"none"} :
          executeMarketTrade(a, p[1], p[2], s, m, "ok", pr, x)

SpecFault == Init /\ [][FaultNext]_vars

\* The life of a quote while the source's book moves
PriceNext ==
    \/ PriceMove
    \/ Tick
    \/ \E a \in Accounts, p \in PairInputs, s \in Sides, m \in Amounts :
          createQuote(a, p[1], p[2], s, m, "ok")
    \/ \E a \in Accounts, q \in QuoteIds : getQuoteSelect(a, q)
    \/ \E i \in 1 .. MaxCalls : getQuoteCheck(i)
    \/ \E i \in 1 .. MaxCalls : getQuoteUpdate(i)
    \/ \E a \in Accounts, q \in QuoteIds : executeRfqTradeSelect(a, q)
    \/ \E i \in 1 .. MaxCalls : executeRfqTrade(i, "none")

SpecPrice == Init /\ [][PriceNext]_vars

\* Quotes and market trades of one account for small amounts the schema
\* accepts, in 10^-9 units: 0.000000001 and 0.00000001
DustAmounts == {1, 10}

\* scaled prices 0.5 and 1.5 the source gives for a market order
DustPrices == {50000000, 150000000}

DustNext ==
    \/ \E p \in PairInputs, s \in Sides, m \in DustAmounts :
          createQuote("acc1", p[1], p[2], s, m, "ok")
    \/ \E p \in PairInputs, s \in Sides, m \in DustAmounts, pr \in DustPrices :
          executeMarketTrade("acc1", p[1], p[2], s, m, "ok", pr, "none")

SpecDust == Init /\ [][DustNext]_vars

\* Quote execution with a clock that may move between the two reads of
\* Date.now() in one call of executeRfqTrade
ClockNext ==
    \/ Tick
    \/ \E a \in Accounts, p \in PairInputs, s \in Sides, m \in Amounts :
          createQuote(a, p[1], p[2], s, m, "ok")
    \/ \E a \in Accounts, q \in QuoteIds : executeRfqTradeSelect(a, q)
    \/ \E i \in 1 .. MaxCalls, ms \in {0, 1} : executeRfqTradeAt(i, "none", now + ms)

SpecClock == Init /\ [][ClockNext]_vars

\* Lookups by id, by the owner and by another account
LookupNext ==
    \/ Tick
    \/ \E a \in Accounts, p \in PairInputs, s \in Sides, m \in Amounts :
          createQuote(a, p[1], p[2], s, m, "ok")
    \/ \E a \in Accounts, q \in QuoteIds : getQuoteSelect(a, q)
    \/ \E i \in 1 .. MaxCalls : getQuoteCheck(i)
    \/ \E i \in 1 .. MaxCalls : getQuoteUpdate(i)
    \/ \E a \in Accounts, q \in QuoteIds : executeRfqTradeSelect(a, q)
    \/ \E i \in 1 .. MaxCalls : executeRfqTrade(i, "none")
    \/ \E a \in Accounts, t \in TradeIds : getTrade(a, t)

SpecLookup == Init /\ [][LookupNext]_vars

\* Market orders of both accounts and the reading of their histories
HistoryNext ==
    \/ Tick
    \/ \E a \in Accounts, p \in PairInputs, s \in Sides, m \in Amounts, pr \in Prices :
          executeMarketTrade(a, p[1], p[2], s, m, "ok", pr, "none")
    \/ \E a \in Accounts : getTradeHistory(a)

SpecHistory == Init /\ [][HistoryNext]_vars

\* The pair check: every ordered pair of currencies, and a source that may fail
PairNext ==
    \/ \E b \in CURRENCIES, q \in CURRENCIES, m \in Amounts, f \in FetchOutcomes :
          createQuote("acc1", b, q, "BUY", m, f)
    \/ \E b \in CURRENCIES, q \in CURRENCIES, m \in Amounts, f \in FetchOutcomes :
          executeMarketTrade("acc1", b, q, "BUY", m, f, InitialBook.askPrice, "none")

SpecPairs == Init /\ [][PairNext]_vars

-----------------------------------------------------------------------------
(* Rate limiter.  windows maps an account to its array of timestamps; an    *)
(* account the Map has no entry for has the empty array.                    *)

RECURSIVE evict(_, _)
\* while (timestamps.length > 0 && timestamps[0] < cutoff) timestamps.shift()
evict(timestamps, cutoff) ==
    IF timestamps # <<>> /\ timestamps[1] < cutoff
    THEN evict(Tail(timestamps), cutoff)
    ELSE timestamps

\* variant: the timestamp is recorded before the limit is tested
checkPushFirst(ws, accountId, at, maxRequests, windowMs) ==
    LET timestamps == evict(ws[accountId], at - windowMs)
    IN  IF Len(timestamps) >= maxRequests
        THEN [ok |-> FALSE, err |-> "RATE_LIMITED",
              windows |-> [ws EXCEPT ![accountId] = Append(timestamps, at)]]
        ELSE [ok |-> TRUE, err |-> "none",
              windows |-> [ws EXCEPT ![accountId] = Append(timestamps, at)]]

\* variant: the limit compared with > instead of >=
checkOffByOne(ws, accountId, at, maxRequests, windowMs) ==
    LET timestamps == evict(ws[accountId], at - windowMs)
    IN  IF Len(timestamps) > maxRequests
        THEN [ok |-> FALSE, err |-> "RATE_LIMITED",
              windows |-> [ws EXCEPT ![accountId] = timestamps]]
        ELSE [ok |-> TRUE, err |-> "none",
              windows |-> [ws EXCEPT ![accountId] = Append(timestamps, at)]]

\* RateLimiter.check of a limiter built with (maxRequests, windowMs); the
\* eviction stays in the array whether or not the request is accepted
check(ws, accountId, at, maxRequests, windowMs) ==
    LET timestamps == evict(ws[accountId], at - windowMs)
    IN  IF Len(timestamps) >= maxRequests
        THEN [ok |-> FALSE, err |-> "RATE_LIMITED",
              windows |-> [ws EXCEPT ![accountId] = timestamps]]
        ELSE [ok |-> TRUE, err |-> "none",
              windows |-> [ws EXCEPT ![accountId] = Append(timestamps, at)]]

CheckCall(accountId, at, res) ==
    [op |-> "check", accountId |-> accountId, at |-> at, res |-> res]

\* rateLimiter.check(accountId) of the authed wrapper: the exported limiter,
\* built with the defaults.  calls holds the last check only.
rateLimiterCheck(accountId) ==
    LET r == check(windows, accountId, now, RATE_LIMIT_MAX, RATE_LIMIT_WINDOW_MS)
    IN  /\ windows' = r.windows
        /\ calls' = << CheckCall(accountId, now, IF r.ok THEN "ok" ELSE r.err) >>
        /\ UNCHANGED <<cache, now, book, balances, quotes, trades>>

RateNext == \E a \in Accounts : rateLimiterCheck(a)

SpecRate == Init /\ [][RateNext]_vars

(* A limiter built with a small limit and a short window; calls is the log  *)
(* of its checks.                                                          *)

MaxChecks == 5

MaxTime == 4

\* new RateLimiter(LimiterMax, LimiterWindow)
LimiterMax == 2

LimiterWindow == 2

limiterCheck(accountId) ==
    LET r == check(windows, accountId, now, LimiterMax, LimiterWindow)
    IN  /\ Len(calls) < MaxChecks
        /\ windows' = r.windows
        /\ calls' = Append(calls, CheckCall(accountId, now,
                                            IF r.ok THEN "ok" ELSE r.err))
        /\ UNCHANGED <<cache, now, book, balances, quotes, trades>>

\* Date.now() one millisecond later
LimiterTick ==
    /\ now < MaxTime
    /\ now' = now + 1
    /\ UNCHANGED <<cache, windows, book, balances, quotes, trades, calls>>

LimiterNext ==
    \/ LimiterTick
    \/ \E a \in Accounts : limiterCheck(a)

SpecLimiter == Init /\ [][LimiterNext]_vars

-----------------------------------------------------------------------------
(* PriceCache and fetchBookTicker.  cache is the Map of bookTickerCache: a   *)
(* function from the keys it holds to their entries.  calls is the log of   *)
(* the gets and sets of the cache and of the requests sent to the source,   *)
(* in the order they happened.                                              *)

Symbols == {"EURUSDT", "BTCUSDT"}

MaxEvents == 6

CacheTimes == {0, PRICE_CACHE_TTL_MS, PRICE_CACHE_TTL_MS + 1, 2 * PRICE_CACHE_TTL_MS + 1}

\* get's answer for a key the Map does not hold, or holds past its time
Null == [bidPrice |-> 0, askPrice |-> 0]

\* variant: the entry is served whatever the clock shows
cacheGetNoExpiry(c, key, at) ==
    IF key \notin DOMAIN c THEN [value |-> Null, cache |-> c]
    ELSE [value |-> c[key].value, cache |-> c]

\* PriceCache.get: the value it returns and the Map it leaves
cacheGet(c, key, at) ==
    IF key \notin DOMAIN c THEN [value |-> Null, cache |-> c]
    ELSE IF at > c[key].expiresAt
    THEN [value |-> Null, cache |-> [k \in DOMAIN c \ {key} |-> c[k]]]
    ELSE [value |-> c[key].value, cache |-> c]

\* PriceCache.set with the default ttl
cacheSet(c, key, value, at) ==
    [k \in DOMAIN c \cup {key} |->
        IF k = key THEN [value |-> value, expiresAt |-> at + PRICE_CACHE_TTL_MS] ELSE c[k]]

CacheEvent(op, key, at, value, pc) ==
    [op |-> op, key |-> key, at |-> at, value |-> value, pc |-> pc]

CacheTick ==
    /\ \E t \in CacheTimes :
          /\ t > now
          /\ now' = t
    /\ UNCHANGED <<cache, windows, book, balances, quotes, trades, calls>>

\* fetchBookTicker up to its first await: the get and, on a miss, the
\* request to the source
fetchBookTickerGet(symbol) ==
    LET g == cacheGet(cache, symbol, now)
    IN  /\ Len(calls) + 2 <= MaxEvents
        /\ cache' = g.cache
        /\ calls' = IF g.value # Null
                    THEN Append(calls, CacheEvent("get", symbol, now, g.value, "done"))
                    ELSE calls \o << CacheEvent("get", symbol, now, Null, "done"),
                                     CacheEvent("fetch", symbol, now, Null, "pending") >>
        /\ UNCHANGED <<windows, now, book, balances, quotes, trades>>

\* the response arrives: with res.ok the ticker it carries is stored,
\* otherwise the call throws and the cache stays as it is
fetchBookTickerResponse(i, fetched, data) ==
    /\ i \in DOMAIN calls
    /\ calls[i].op = "fetch" /\ calls[i].pc = "pending"
    /\ IF fetched = "ok"
       THEN /\ Len(calls) < MaxEvents
            /\ cache' = cacheSet(cache, calls[i].key, data, now)
            /\ calls' = Append([calls EXCEPT ![i].pc = "done", ![i].value = data],
                               CacheEvent("set", calls[i].key, now, data, "done"))
       ELSE /\ cache' = cache
            /\ calls' = [calls EXCEPT ![i].pc = fetchFailure(fetched)]
    /\ UNCHANGED <<windows, now, book, balances, quotes, trades>>

CacheNext ==
    \/ CacheTick
    \/ \E k \in Symbols : fetchBookTickerGet(k)
    \/ \E i \in 1 .. MaxEvents, f \in FetchOutcomes, b \in Books : fetchBookTickerResponse(i, f, b)

SpecCache == Init /\ [][CacheNext]_vars

-----------------------------------------------------------------------------
(* The order router on its own: a behaviour routes one book ticker, and     *)
(* calls holds that application.                                            *)

RouterPrices == {1, 2499, 2500, 4999, 5000, 7500, 10000, 15000, 100000000, 150000000, 200000000}

route(binanceBid, binanceAsk, side) ==
    /\ calls = <<>>
    /\ binanceBid <= binanceAsk
    /\ calls' = << [op |-> "getBestQuote", binanceBid |-> binanceBid,
                    binanceAsk |-> binanceAsk, side |-> side,
                    best |-> getBestQuote(binanceBid, binanceAsk, side)] >>
    /\ UNCHANGED <<cache, windows, now, book, balances, quotes, trades>>

RouterNext == \E b \in RouterPrices, a \in RouterPrices, s \in Sides : route(b, a, s)

SpecRouter == Init /\ [][RouterNext]_vars

-----------------------------------------------------------------------------
(* POST /api/v1/trades with type MARKET, as the server routes it.           *)

IdempotencyKeys == {"k1", "k2"}

\* a request to the route: the headers it carried, its body and the response
PostCall(accountId, idempotencyKey, req, res, tradeIds) ==
    [op |-> "postTrades", accountId |-> accountId, idempotencyKey |-> idempotencyKey,
     req |-> req, res |-> res, tradeIds |-> tradeIds]

\* authed(handler): rateLimiter.check, then the handler, which reads the body
\* only; no header other than X-Account-Id is read on the way
postTrades(accountId, idempotencyKey, baseCurrency, quoteCurrency, side, amount, fetched, price) ==
    LET db  == DbOf(balances, quotes, trades)
        lim == check(windows, accountId, now, RATE_LIMIT_MAX, RATE_LIMIT_WINDOW_MS)
        m   == IF ~lim.ok THEN [res |-> lim.err, price |-> 0, db |-> db]
               ELSE IF baseCurrency = quoteCurrency
               THEN [res |-> "VALIDATION_ERROR", price |-> 0, db |-> db]
               ELSE marketTrade(db, now, accountId, baseCurrency, quoteCurrency, side,
                                amount, fetched, price, "none")
    IN  /\ Len(calls) < MaxCalls
        /\ windows' = lim.windows
        /\ calls' = Append(calls, PostCall(accountId, idempotencyKey,
                                           Request(baseCurrency, quoteCurrency, side, amount),
                                           m.res, DOMAIN m.db.trades \ DOMAIN trades))
        /\ balances' = m.db.balances
        /\ quotes' = m.db.quotes
        /\ trades' = m.db.trades
        /\ UNCHANGED <<cache, now, book>>

IdemNext ==
    \/ Tick
    \/ \E a \in Accounts, k \in IdempotencyKeys, q \in {"USDT", "EUR"}, s \in Sides, m \in Amounts :
          postTrades(a, k, "EUR", q, s, m, "ok", InitialBook.askPrice)

SpecIdem == Init /\ [][IdemNext]_vars

-----------------------------------------------------------------------------
(* The authed routes POST /api/v1/quotes and POST /api/v1/trades (MARKET)   *)
(* from the header to the response.  calls holds the last request only:     *)
(* the header it carried, its body, the response code and the number of     *)
(* price lookups made for it.                                               *)

\* values of X-Account-Id after trim(); "" is a missing or blank header
HeaderIds == {"acc1", ""}

\* amounts a body may carry, in 10^-9 units
BodyAmounts == {-70, 0, 70}

\* quote currencies a body may carry next to the base currency EUR
BodyQuotes == {"USDT", "EUR"}

Routes == {"postQuotes", "postTrades"}

extractAccountId(header) ==
    IF header = "" THEN [ok |-> FALSE, err |-> "UNAUTHORIZED", accountId |-> ""]
    ELSE [ok |-> TRUE, err |-> "none", accountId |-> header]

\* variant: zero is accepted
nonnegative(amount) == amount >= 0

\* z.number().positive() of quoteSchema and marketTradeSchema
positive(amount) == amount > 0

\* the body of createQuote on the store db at time at: its result, the
\* number of price lookups it made and the store it leaves
createQuoteBody(db, at, accountId, baseCurrency, quoteCurrency, side, amount, fetched, bookTicker) ==
    IF ~pairFound(baseCurrency, quoteCurrency)
    THEN [res |-> "PAIR_NOT_SUPPORTED", lookups |-> 0, db |-> db]
    ELSE IF fetched # "ok" THEN [res |-> fetchFailure(fetched), lookups |-> 1, db |-> db]
    ELSE LET price       == getExecutionPrice(bookTicker, side).price
             baseAmount  == toScaled(amount)
             quoteAmount == scaledMultiply(baseAmount, price)
             id          == Len(db.quotes) + 1
         IN  [res |-> "ok", lookups |-> 1,
              db |-> [db EXCEPT !.quotes = Append(@,
                       [ id |-> id, accountId |-> accountId,
                         baseCurrency |-> baseCurrency,
                         quoteCurrency |-> quoteCurrency, side |-> side,
                         baseAmount |-> baseAmount, quoteAmount |-> quoteAmount,
                         price |-> price, expiresAt |-> at + QUOTE_TTL_MS,
                         status |-> "OPEN", createdAt |-> at ])]]

\* the handler of a route: schema.parse(body), the test for equal
\* currencies, then the service
handler(path, db, at, accountId, body, fetched, bookTicker) ==
    IF ~positive(body.amount) THEN [res |-> "VALIDATION_ERROR", lookups |-> 0, db |-> db]
    ELSE IF body.baseCurrency = body.quoteCurrency
    THEN [res |-> "VALIDATION_ERROR", lookups |-> 0, db |-> db]
    ELSE IF path = "postQuotes"
    THEN createQuoteBody(db, at, accountId, body.baseCurrency, body.quoteCurrency,
                         body.side, body.amount, fetched, bookTicker)
    ELSE LET m == marketTrade(db, at, accountId, body.baseCurrency, body.quoteCurrency,
                              body.side, body.amount, fetched,
                              getExecutionPrice(bookTicker, body.side).price, "none")
         IN  [res |-> m.res, db |-> m.db,
              lookups |-> IF pairFound(body.baseCurrency, body.quoteCurrency) THEN 1 ELSE 0]

RouteCall(path, header, req, res, lookups) ==
    [op |-> path, header |-> header, req |-> req, res |-> res, lookups |-> lookups]

\* authed(handler): extractAccountId, rateLimiter.check, then the handler;
\* whatever is thrown on the way becomes the response
authed(path, header, baseCurrency, quoteCurrency, side, amount, fetched) ==
    LET db  == DbOf(balances, quotes, trades)
        body == Request(baseCurrency, quoteCurrency, side, amount)
        acc == extractAccountId(header)
        lim == IF acc.ok
               THEN check(windows, acc.accountId, now, RATE_LIMIT_MAX, RATE_LIMIT_WINDOW_MS)
               ELSE [ok |-> FALSE, err |-> acc.err, windows |-> windows]
        h   == IF lim.ok THEN handler(path, db, now, acc.accountId, body, fetched, book)
               ELSE [res |-> lim.err, lookups |-> 0, db |-> db]
    IN  /\ Len(h.db.quotes) <= MaxQuotes
        /\ windows' = lim.windows
        /\ calls' = << RouteCall(path, header, body, h.res, h.lookups) >>
        /\ balances' = h.db.balances
        /\ quotes' = h.db.quotes
        /\ trades' = h.db.trades
        /\ UNCHANGED <<cache, now, book>>

RouteNext ==
    \E r \in Routes, h \in HeaderIds, q \in BodyQuotes, m \in BodyAmounts :
        authed(r, h, "EUR", q, "BUY", m, "ok")

SpecRoute == Init /\ [][RouteNext]_vars

-----------------------------------------------------------------------------
(* The money functions on their own: a behaviour applies one function to    *)
(* one input, and calls holds that application.                             *)

\* the low limb and the higher limbs of the scaled integers tried:
\* 0.00008000 .. 0.00008063 and 41760200.41898000 .. 41760200.41898063
LowLimbs == 8000 .. 8063

HighLimbs == { <<>>, <<4189, 200, 4176>> }

ScaledInputs == { <<l>> \o h : l \in LowLimbs, h \in HighLimbs }

\* the decimal with 8 fractional digits that denotes scaled/SCALE
render(scaled) ==
    LET ds == padStart(toStringBig(scaled), 9, 0)
    IN  [integer |-> SubSeq(ds, 1, Len(ds) - 8), fraction |-> SubSeq(ds, Len(ds) - 7, Len(ds))]

RECURSIVE stripZeros(_)
\* the same decimal written without trailing zeros
stripZeros(str) ==
    IF Len(str.fraction) > 1 /\ str.fraction[Len(str.fraction)] = 0
    THEN stripZeros([str EXCEPT !.fraction = SubSeq(str.fraction, 1, Len(str.fraction) - 1)])
    ELSE str

roundTrip(scaled) ==
    LET x == stripZeros(render(scaled))
    IN  /\ calls = <<>>
        /\ calls' = << [op |-> "roundTrip", scaled |-> scaled, x |-> x,
                        rendered |-> fromScaled(scaled),
                        parsed |-> parsePrice(fromScaled(scaled)),
                        back |-> fromScaled(toScaledNumber(parseFloat(x)))] >>
        /\ UNCHANGED <<cache, windows, now, book, balances, quotes, trades>>

RoundTripNext == \E s \in ScaledInputs : roundTrip(s)

SpecRoundTrip == Init /\ [][RoundTripNext]_vars

\* fromScaled of a scaled integer of either sign below 2^31 in magnitude.
\* There scaled / SCALE lies at least 10^-8 from the next integer unless it
\* is one, far more than the rounding of the division, so Math.floor of the
\* quotient is the floor of the exact quotient; scaled % SCALE has the sign
\* of scaled, and Math.abs removes it.  The template renders a negative
\* integer part as "-" and its digits.
fromScaledSigned(scaled) ==
    LET integer  == IF scaled >= 0 THEN scaled \div SCALE
                    ELSE -((-scaled + SCALE - 1) \div SCALE)
        fraction == (IF scaled >= 0 THEN scaled ELSE -scaled) % SCALE
    IN  [ negative |-> integer < 0,
          integer  |-> toString(IF integer < 0 THEN -integer ELSE integer),
          fraction |-> padStart(toString(fraction), 8, 0) ]

\* the negative inputs tried: -0.00000001 .. -0.00000020, -0.49999981 ..
\* -0.50000020, -0.99999981 .. -1.00000020, -1.49999981 .. -1.50000020
SignedInputs == { -(h * 50000000) - k : h \in 0 .. 3, k \in -19 .. 20 } \ (0 .. 19)

format(scaled) ==
    /\ calls = <<>>
    /\ calls' = << [op |-> "fromScaled", scaled |-> scaled,
                    rendered |-> fromScaledSigned(scaled),
                    opposite |-> fromScaledSigned(-scaled)] >>
    /\ UNCHANGED <<cache, windows, now, book, balances, quotes, trades>>

FormatNext == \E s \in SignedInputs : format(s)

SpecFormat == Init /\ [][FormatNext]_vars

ArithInputs == -21 .. 21

Operands == {-SCALE, -50000000, -3, 0, 3, 50000000, SCALE}

multiply(a, b) ==
    /\ calls = <<>>
    /\ calls' = << [op |-> "multiply", a |-> a, b |-> b, err |-> "none",
                    value |-> scaledMultiply(a, b)] >>
    /\ UNCHANGED <<cache, windows, now, book, balances, quotes, trades>>

divide(a, b) ==
    /\ calls = <<>>
    /\ calls' = << [op |-> "divide", a |-> a, b |-> b, err |-> scaledDivide(a, b).err,
                    value |-> scaledDivide(a, b).value] >>
    /\ UNCHANGED <<cache, windows, now, book, balances, quotes, trades>>

ArithNext ==
    \/ \E a \in ArithInputs, b \in Operands : multiply(a, b)
    \/ \E a \in ArithInputs, b \in Operands : divide(a, b)

SpecArith == Init /\ [][ArithNext]_vars

-----------------------------------------------------------------------------
(* The Balance Ledger on its own: debit and credit called directly.  calls *)
(* holds the last call only, with its arguments and outcome.               *)

MaxBalance == 14

LedgerAmounts == {0, 7}

LedgerCall(op, accountId, currency, amount, res) ==
    [op |-> op, accountId |-> accountId, currency |-> currency,
     amount |-> amount, res |-> res]

ledgerDebit(accountId, currency, amount) ==
    LET d == debit(balances, accountId, currency, amount)
    IN  /\ balances' = d.balances
        /\ calls' = << LedgerCall("debit", accountId, currency, amount,
                                  IF d.ok THEN "ok" ELSE d.err) >>
        /\ UNCHANGED <<cache, windows, now, book, quotes, trades>>

ledgerCredit(accountId, currency, amount) ==
    /\ getBalance(balances, accountId, currency) + amount <= MaxBalance
    /\ balances' = credit(balances, accountId, currency, amount)
    /\ calls' = << LedgerCall("credit", accountId, currency, amount, "ok") >>
    /\ UNCHANGED <<cache, windows, now, book, quotes, trades>>

LedgerNext ==
    \/ \E a \in Accounts, c \in CURRENCIES, m \in LedgerAmounts : ledgerDebit(a, c, m)
    \/ \E a \in Accounts, c \in CURRENCIES, m \in LedgerAmounts : ledgerCredit(a, c, m)

SpecLedger == Init /\ [][LedgerNext]_vars

-----------------------------------------------------------------------------
(* Properties *)

\* call i returns in this step
Finished(i) ==
    /\ i \in DOMAIN calls'
    /\ calls'[i].pc = "done"
    /\ (i \in DOMAIN calls => calls[i].pc # "done")

\* a trade is committed in this step
Committed == Len(trades') = Len(trades) + 1

NewTrade == trades'[Len(trades')]

RECURSIVE LegSum(_, _, _, _, _)
\* sum over the first n trades of the legs of one kind of (account, currency)
LegSum(ts, n, accountId, currency, kind) ==
    IF n = 0 THEN 0
    ELSE LET t == ts[n]
             ccy == IF (t.side = "BUY") = (kind = "debit")
                    THEN t.quoteCurrency ELSE t.baseCurrency
             amt == IF (t.side = "BUY") = (kind = "debit")
                    THEN t.quoteAmount ELSE t.baseAmount
         IN  LegSum(ts, n - 1, accountId, currency, kind)
             + (IF t.accountId = accountId /\ ccy = currency THEN amt ELSE 0)

\* the executeRfqTrade calls made on quote q by its owner
OwnerRfqCalls(q) ==
    { i \in DOMAIN calls : /\ calls[i].op = "rfq"
                           /\ calls[i].quoteId = q
                           /\ calls[i].accountId = quotes[q].accountId }

\* C1: of N >= 2 overlapping executeRfqTrade calls by the owner on one OPEN,
\* unexpired quote (each read it OPEN, none ran out of balance), exactly
\* one succeeds, the others fail with QUOTE_ALREADY_EXECUTED or
\* QUOTE_EXPIRED, and exactly one Trade row carries the quote's id.
C1_ExactlyOneExecution ==
    \A q \in DOMAIN quotes :
        LET cs == OwnerRfqCalls(q)
        IN  ( /\ Cardinality(cs) >= 2
              /\ \A i \in cs : /\ calls[i].pc = "done"
                               /\ calls[i].row # <<>>
                               /\ calls[i].row[1].status = "OPEN"
                               /\ calls[i].res # "INSUFFICIENT_BALANCE"
              /\ \E i \in cs : calls[i].res # "QUOTE_EXPIRED" )
            => /\ Cardinality({ i \in cs : calls[i].res = "ok" }) = 1
               /\ \A i \in cs : calls[i].res \in
                      {"ok", "QUOTE_ALREADY_EXECUTED", "QUOTE_EXPIRED"}
               /\ Cardinality({ t \in DOMAIN trades : trades[t].quoteId = q }) = 1

\* C2: every balance row holds an amount >= 0 in every reachable state.
C2_NonNegative == \A r \in balances : r.amount >= 0

\* C2 witness: a debit was refused while a balance stands at exactly 0
C2_Witness ==
    /\ \E i \in DOMAIN calls : calls[i].res = "INSUFFICIENT_BALANCE"
    /\ \E r \in balances : r.amount = 0
    /\ Len(trades) >= 1

\* C3: the commit routine is all-or-nothing.  A trade call that returns
\* INSUFFICIENT_BALANCE or an internal failure of a later statement leaves
\* balances, quotes and trades as they were; no failing call changes a balance
\* or adds a trade; a successful call shows the debit, the credit, the
\* EXECUTED status (when it has a quote) and the new Trade row together.
C3_AllOrNothing ==
    [][ \A i \in DOMAIN calls' :
          (Finished(i) /\ calls'[i].op \in {"rfq", "market"}) =>
             LET res == calls'[i].res
             IN  /\ res \in {"INSUFFICIENT_BALANCE", "INTERNAL_ERROR"}
                       => UNCHANGED <<balances, quotes, trades>>
                 /\ res # "ok" => UNCHANGED <<balances, trades>>
                 /\ res = "ok" =>
                       /\ Committed
                       /\ LET t  == NewTrade
                              a  == t.accountId
                              dc == IF t.side = "BUY" THEN t.quoteCurrency
                                                      ELSE t.baseCurrency
                              da == IF t.side = "BUY" THEN t.quoteAmount
                                                      ELSE t.baseAmount
                              cc == IF t.side = "BUY" THEN t.baseCurrency
                                                      ELSE t.quoteCurrency
                              ca == IF t.side = "BUY" THEN t.baseAmount
                                                      ELSE t.quoteAmount
                          IN  /\ a = calls'[i].accountId
                              /\ getBalance(balances', a, dc)
                                    = getBalance(balances, a, dc) - da
                              /\ getBalance(balances', a, cc)
                                    = getBalance(balances, a, cc) + ca
                              /\ t.quoteId = calls'[i].quoteId
                              /\ t.quoteId # 0
                                    => quotes'[t.quoteId].status = "EXECUTED"
      ]_vars

\* C3 witness: the store failed inside a commit whose debit had succeeded,
\* and another commit went through
C3_Witness ==
    /\ \E i \in DOMAIN calls : calls[i].res = "INTERNAL_ERROR"
    /\ \E i \in DOMAIN calls : calls[i].res = "ok" /\ calls[i].op = "rfq"

\* C4: a stored quote status that is EXECUTED or EXPIRED never changes.
C4_TerminalStatus ==
    [][ \A q \in DOMAIN quotes :
          quotes[q].status \in {"EXECUTED", "EXPIRED"}
             => quotes'[q].status = quotes[q].status ]_vars

\* C5: every (account, currency) balance is its initial value plus the
\* credit legs minus the debit legs of the account's committed trades.
C5_NoLostUpdate ==
    \A a \in Accounts, c \in CURRENCIES :
        getBalance(balances, a, c) =
            getBalance(InitialRows, a, c)
            + LegSum(trades, Len(trades), a, c, "credit")
            - LegSum(trades, Len(trades), a, c, "debit")

\* C5 witness: two trades of one account, one of them committed by an RFQ call
C5_Witness ==
    /\ Len(trades) >= 2
    /\ trades[1].accountId = trades[2].accountId
    /\ \E i \in DOMAIN calls : calls[i].op = "rfq" /\ calls[i].res = "ok"

\* C6: a committed trade with base amount b and price p has
\* quoteAmount = floor(b*p / 10^8); a BUY takes quoteAmount from the quote
\* currency and adds b to the base currency, a SELL takes b from the base
\* currency and adds quoteAmount to the quote currency; the row records the
\* b and p of its call (the quote's, or the market request's).
C6_ExactAmounts ==
    [][ Committed =>
          LET t == NewTrade
              a == t.accountId
              i == CHOOSE j \in DOMAIN calls' : Finished(j)
              b == IF t.type = "RFQ" THEN quotes[t.quoteId].baseAmount
                   ELSE (calls'[i].req.amount + 5) \div 10
              p == IF t.type = "RFQ" THEN quotes[t.quoteId].price
                   ELSE calls'[i].price
          IN  /\ t.baseAmount = b /\ t.price = p
              /\ t.quoteAmount * SCALE <= b * p
              /\ b * p < (t.quoteAmount + 1) * SCALE
              /\ t.side = "BUY" =>
                    /\ getBalance(balances', a, t.quoteCurrency)
                          = getBalance(balances, a, t.quoteCurrency) - t.quoteAmount
                    /\ getBalance(balances', a, t.baseCurrency)
                          = getBalance(balances, a, t.baseCurrency) + b
              /\ t.side = "SELL" =>
                    /\ getBalance(balances', a, t.baseCurrency)
                          = getBalance(balances, a, t.baseCurrency) - b
                    /\ getBalance(balances', a, t.quoteCurrency)
                          = getBalance(balances, a, t.quoteCurrency) + t.quoteAmount
      ]_vars

\* C6 witness: a BUY and a SELL are committed, one at a price whose product
\* with the base amount is not a multiple of 10^8
C6_Witness ==
    /\ \E n \in DOMAIN trades : trades[n].side = "BUY"
    /\ \E n \in DOMAIN trades : trades[n].side = "SELL"
    /\ \E n \in DOMAIN trades :
          trades[n].quoteAmount * SCALE # trades[n].baseAmount * trades[n].price

\* C7: a committed trade of account A on (base, quote) leaves every balance
\* row of another account or another currency, every earlier Trade row and
\* every other quote as they were, and changes nothing but the status of
\* the quote it executes.
C7_Frame ==
    [][ Committed =>
          LET t == NewTrade
              touched(r) == /\ r.accountId = t.accountId
                            /\ r.currency \in {t.baseCurrency, t.quoteCurrency}
          IN  /\ { r \in balances' : ~touched(r) } = { r \in balances : ~touched(r) }
              /\ SubSeq(trades', 1, Len(trades)) = trades
              /\ DOMAIN quotes' = DOMAIN quotes
              /\ \A q \in DOMAIN quotes :
                    IF q = t.quoteId
                    THEN [quotes'[q] EXCEPT !.status = "OPEN"]
                            = [quotes[q] EXCEPT !.status = "OPEN"]
                    ELSE quotes'[q] = quotes[q]
      ]_vars

\* C7 witness: acc2 has traded into a currency it held no row of while acc1
\* holds that currency and a quote is stored
C7_Witness ==
    /\ \E n \in DOMAIN trades : trades[n].accountId = "acc2" /\ trades[n].quoteId = 0
    /\ RowsOf(balances, "acc2", "EUR") # {}
    /\ Len(quotes) >= 1

\* C8: debit decreases the balance by exactly amount when the balance (0 when
\* no row exists) is >= amount, and otherwise fails with INSUFFICIENT_BALANCE
\* and changes no balance.
C8_DebitContract ==
    [][ (calls' # <<>> /\ calls'[1].op = "debit") =>
          LET c == calls'[1]
              other(r) == ~(r.accountId = c.accountId /\ r.currency = c.currency)
          IN  IF getBalance(balances, c.accountId, c.currency) >= c.amount
              THEN /\ c.res = "ok"
                   /\ getBalance(balances', c.accountId, c.currency)
                         = getBalance(balances, c.accountId, c.currency) - c.amount
                   /\ { r \in balances' : other(r) } = { r \in balances : other(r) }
              ELSE /\ c.res = "INSUFFICIENT_BALANCE"
                   /\ balances' = balances
      ]_vars

\* C9: credit with amount >= 0 succeeds; it creates the row with balance =
\* amount when (account, currency) has none, adds amount to the row
\* otherwise, and changes no other row.
C9_CreditContract ==
    [][ (calls' # <<>> /\ calls'[1].op = "credit") =>
          LET c == calls'[1]
              other(r) == ~(r.accountId = c.accountId /\ r.currency = c.currency)
              old == RowsOf(balances, c.accountId, c.currency)
              new == RowsOf(balances', c.accountId, c.currency)
          IN  /\ c.res = "ok"
              /\ Cardinality(new) = 1
              /\ \A n \in new :
                    IF old = {} THEN n.amount = c.amount
                    ELSE \E o \in old : n = [o EXCEPT !.amount = @ + c.amount]
              /\ { r \in balances' : other(r) } = { r \in balances : other(r) }
      ]_vars

\* C9 witness: a credit has created a row that did not exist at the start
C9_Witness ==
    /\ calls # <<>> /\ calls[1].op = "credit" /\ calls[1].amount > 0
    /\ \E r \in balances : r.accountId = calls[1].accountId
                           /\ r.currency = calls[1].currency
                           /\ r.id > Cardinality(InitialRows)
                           /\ r.amount = calls[1].amount

\* C10: executeRfqTrade on a quote it read as EXECUTED or EXPIRED fails
\* (QUOTE_ALREADY_EXECUTED, respectively QUOTE_EXPIRED, for the owner) and
\* changes no balance, no trade and no quote status.
C10_RejectedQuoteUntouched ==
    [][ \A i \in DOMAIN calls :
          ( /\ calls[i].op = "rfq" /\ calls[i].pc = "selected"
            /\ Finished(i)
            /\ calls[i].row # <<>>
            /\ calls[i].row[1].status \in {"EXECUTED", "EXPIRED"} )
          => /\ calls'[i].res # "ok"
             /\ calls[i].row[1].accountId = calls[i].accountId =>
                   calls'[i].res = IF calls[i].row[1].status = "EXECUTED"
                                   THEN "QUOTE_ALREADY_EXECUTED"
                                   ELSE "QUOTE_EXPIRED"
             /\ UNCHANGED <<balances, trades, quotes>>
      ]_vars

\* C10 witness: the owner executed a quote and was then refused on it, the
\* refused call having read the status EXECUTED
C10_Witness ==
    \E i, j \in DOMAIN calls :
        /\ i < j
        /\ calls[i].op = "rfq" /\ calls[j].op = "rfq"
        /\ calls[i].quoteId = calls[j].quoteId
        /\ calls[i].res = "ok"
        /\ calls[j].res = "QUOTE_ALREADY_EXECUTED"
        /\ calls[j].row # <<>> /\ calls[j].row[1].status = "EXECUTED"

\* call i is an executeRfqTrade by the owner of the row it read, and it read
\* the row with the given status
OwnerRead(c, status) ==
    /\ c.op = "rfq"
    /\ c.row # <<>>
    /\ c.row[1].accountId = c.accountId
    /\ c.row[1].status = status

\* C11: when the owner's executeRfqTrade runs its checks on a quote it read
\* as OPEN at a time later than expiresAt, the call fails with QUOTE_EXPIRED,
\* no balance changes, no Trade row is added and the stored status becomes
\* EXPIRED; every getQuote started afterwards reads the status EXPIRED, and
\* an owner's getQuote that read EXPIRED returns EXPIRED.
C11_ExpiredOnExecute ==
    [][ /\ \A i \in DOMAIN calls :
              (Finished(i) /\ OwnerRead(calls[i], "OPEN")
                 /\ now > calls[i].row[1].expiresAt)
              => /\ calls'[i].res = "QUOTE_EXPIRED"
                 /\ UNCHANGED <<balances, trades>>
                 /\ quotes'[calls[i].quoteId].status = "EXPIRED"
        /\ \A j \in DOMAIN calls' \ DOMAIN calls :
              ( /\ calls'[j].op = "getQuote"
                /\ \E i \in DOMAIN calls :
                      /\ OwnerRead(calls[i], "OPEN")
                      /\ calls[i].res = "QUOTE_EXPIRED"
                      /\ calls[i].quoteId = calls'[j].quoteId )
              => /\ calls'[j].row # <<>>
                 /\ calls'[j].row[1].status = "EXPIRED"
        /\ \A j \in DOMAIN calls :
              ( /\ calls[j].op = "getQuote" /\ Finished(j)
                /\ calls[j].row # <<>>
                /\ calls[j].row[1].accountId = calls[j].accountId
                /\ calls[j].row[1].status = "EXPIRED" )
              => calls'[j].res = "EXPIRED"
      ]_vars

\* C11 witness: the owner's execution of an OPEN quote past its deadline was
\* refused, no trade exists, and the owner's getQuote started after it
\* returned EXPIRED
C11_Witness ==
    \E i, j \in DOMAIN calls :
        /\ i < j
        /\ OwnerRead(calls[i], "OPEN") /\ calls[i].res = "QUOTE_EXPIRED"
        /\ calls[j].op = "getQuote" /\ calls[j].quoteId = calls[i].quoteId
        /\ calls[j].accountId = calls[i].accountId
        /\ calls[j].row # <<>> /\ calls[j].row[1].status = "EXPIRED"
        /\ calls[j].res = "EXPIRED"
        /\ trades = <<>>
        /\ balances = InitialRows

\* C12: when the paying balance (quote currency of a BUY, base currency of a
\* SELL) is smaller than the amount to debit, executeMarketTrade and an
\* executeRfqTrade that passed its checks fail with INSUFFICIENT_BALANCE;
\* every balance is unchanged, no Trade row is added and every quote keeps
\* its stored status.
C12_InsufficientBalance ==
    [][ \A i \in DOMAIN calls' :
          Finished(i) =>
             LET c == calls'[i]
                 short(side, baseCurrency, quoteCurrency, baseAmount, price) ==
                     IF side = "BUY"
                     THEN getBalance(balances, c.accountId, quoteCurrency)
                             < (baseAmount * price) \div SCALE
                     ELSE getBalance(balances, c.accountId, baseCurrency) < baseAmount
                 refused == /\ c.res = "INSUFFICIENT_BALANCE"
                            /\ UNCHANGED <<balances, trades, quotes>>
             IN  /\ ( /\ c.op = "market" /\ c.price # 0
                      /\ short(c.req.side, c.req.baseCurrency, c.req.quoteCurrency,
                               (c.req.amount + 5) \div 10, c.price) )
                    => refused
                 /\ ( /\ OwnerRead(c, "OPEN") /\ now <= c.row[1].expiresAt
                      /\ short(c.row[1].side, c.row[1].baseCurrency,
                               c.row[1].quoteCurrency, c.row[1].baseAmount,
                               c.row[1].price) )
                    => /\ refused
                       /\ quotes[c.quoteId].status = "OPEN"
                             => quotes'[c.quoteId].status = "OPEN"
      ]_vars

\* C12 witness: an RFQ execution and a market order were both refused for
\* lack of balance, and the quote is still OPEN
C12_Witness ==
    /\ \E i \in DOMAIN calls :
          /\ calls[i].op = "rfq" /\ calls[i].res = "INSUFFICIENT_BALANCE"
          /\ quotes[calls[i].quoteId].status = "OPEN"
    /\ \E i \in DOMAIN calls :
          calls[i].op = "market" /\ calls[i].res = "INSUFFICIENT_BALANCE"
    /\ trades = <<>>

\* the errors of a refused trade
Refusals == {"INSUFFICIENT_BALANCE", "QUOTE_EXPIRED", "QUOTE_ALREADY_EXECUTED"}

\* call i is a trade call that returns one of the Refusals in this step
Refused(i) ==
    /\ Finished(i)
    /\ calls'[i].op \in {"rfq", "market"}
    /\ calls'[i].res \in Refusals

C14_NotOwnerIsNotFound ==
    [][ \A i \in DOMAIN calls' :
          ( /\ Finished(i)
            /\ calls'[i].op \in {"getQuote", "rfq", "getTrade"}
            /\ \/ calls'[i].row = <<>>
               \/ calls'[i].row[1].accountId # calls'[i].accountId )
          => /\ calls'[i].res = "NOT_FOUND"
             /\ UNCHANGED <<balances, quotes, trades>>
      ]_vars

\* C14 witness: past the deadline of a quote still stored as OPEN, another
\* account's getQuote and executeRfqTrade on it both returned NOT_FOUND
C14_Witness ==
    \E i, j \in DOMAIN calls :
        /\ calls[i].op = "getQuote" /\ calls[j].op = "rfq"
        /\ \A k \in {i, j} :
              /\ calls[k].row # <<>>
              /\ calls[k].row[1].accountId # calls[k].accountId
              /\ calls[k].res = "NOT_FOUND"
              /\ quotes[calls[k].quoteId].status = "OPEN"
              /\ now > quotes[calls[k].quoteId].expiresAt

\* a quote row with its status masked
Frozen(q) == [q EXCEPT !.status = "-"]

\* C15: a Trade committed by executeRfqTrade for quote q has the account,
\* side, currencies, baseAmount, quoteAmount and price stored in q, whatever
\* the source's book is when the quote is executed.
C15_TradeCarriesQuote ==
    [][ (Committed /\ NewTrade.type = "RFQ") =>
          LET t == NewTrade
              q == quotes[t.quoteId]
          IN  /\ t.accountId = q.accountId
              /\ t.side = q.side
              /\ t.baseCurrency = q.baseCurrency
              /\ t.quoteCurrency = q.quoteCurrency
              /\ t.baseAmount = q.baseAmount
              /\ t.quoteAmount = q.quoteAmount
              /\ t.price = q.price
      ]_vars

\* C15 witness: a quote priced from the initial book was executed, its quote
\* amount is not a whole product, and the book now gives another price for
\* its side
C15_Witness ==
    \E n \in DOMAIN trades :
        /\ trades[n].type = "RFQ"
        /\ trades[n].price = getExecutionPrice(InitialBook, trades[n].side).price
        /\ trades[n].price # getExecutionPrice(book, trades[n].side).price
        /\ trades[n].quoteAmount * SCALE # trades[n].baseAmount * trades[n].price

C17_TradesAppendOnly ==
    [][ /\ Len(trades') >= Len(trades)
        /\ SubSeq(trades', 1, Len(trades)) = trades ]_vars

\* C17 witness: after two trades were committed, a third trade call ran and
\* was refused
C17_Witness ==
    /\ Len(trades) = 2
    /\ Len(calls) = 3
    /\ calls[3].op \in {"market", "rfq"} /\ calls[3].pc = "done"
    /\ calls[3].res # "ok"
    /\ calls[1].res = "ok" /\ calls[2].res = "ok"

\* C18: every quote whose stored status is EXECUTED has a committed Trade row
\* whose quoteId is the quote's id.
C18_ExecutedHasTrade ==
    \A q \in DOMAIN quotes :
        quotes[q].status = "EXECUTED"
           => \E n \in DOMAIN trades : trades[n].quoteId = q

\* C18 witness: the store failed in a first attempt to execute the quote and
\* a second attempt executed it
C18_Witness ==
    \E q \in DOMAIN quotes, i, j \in DOMAIN calls :
        /\ quotes[q].status = "EXECUTED"
        /\ i < j
        /\ calls[i].op = "rfq" /\ calls[i].quoteId = q
        /\ calls[i].res = "INTERNAL_ERROR"
        /\ calls[j].op = "rfq" /\ calls[j].quoteId = q /\ calls[j].res = "ok"

\* C19: the price locked by createQuote includes the spread markup: for a
\* BUY it is strictly greater than the source's ask, for a SELL strictly
\* less than the source's bid.
C19_SpreadMarkup ==
    [][ Len(quotes') = Len(quotes) + 1 =>
          LET q == quotes'[Len(quotes')]
          IN  /\ q.side = "BUY"  => q.price > book.askPrice
              /\ q.side = "SELL" => q.price < book.bidPrice
      ]_vars

\* the configured ordered (base, quote) pairs
ConfiguredPairs == { <<p.base, p.quote>> : p \in SUPPORTED_PAIRS }

\* C20: createQuote and executeMarketTrade on an ordered pair that is not
\* configured fail with PAIR_NOT_SUPPORTED before any price lookup, create
\* no quote and no trade and change no balance.
C20_OnlyConfiguredPairs ==
    [][ \A i \in DOMAIN calls' :
          ( /\ Finished(i)
            /\ calls'[i].op \in {"createQuote", "market"}
            /\ <<calls'[i].req.baseCurrency, calls'[i].req.quoteCurrency>>
                  \notin ConfiguredPairs )
          => /\ calls'[i].res = "PAIR_NOT_SUPPORTED"
             /\ calls'[i].price = 0
             /\ UNCHANGED <<balances, quotes, trades>>
      ]_vars

\* C21: when the price source fails during createQuote or executeMarketTrade
\* (the pair was accepted and no price was obtained), the call fails with
\* PRICE_FETCH_FAILED, no quote is created, no trade is committed and no
\* balance changes.
C21_PriceFailurePropagates ==
    [][ \A i \in DOMAIN calls' :
          ( /\ Finished(i)
            /\ calls'[i].op \in {"createQuote", "market"}
            /\ pairFound(calls'[i].req.baseCurrency, calls'[i].req.quoteCurrency)
            /\ calls'[i].price = 0 )
          => /\ calls'[i].res = "PRICE_FETCH_FAILED"
             /\ UNCHANGED <<balances, quotes, trades>>
      ]_vars

C23_HistoryOfAccount ==
    [][ \A i \in DOMAIN calls' \ DOMAIN calls :
          calls'[i].op = "getTradeHistory" =>
             LET rows == calls'[i].row
                 own  == { n \in DOMAIN trades :
                              trades[n].accountId = calls'[i].accountId }
             IN  /\ Len(rows) = Cardinality(own)
                 /\ { rows[k] : k \in DOMAIN rows } = { trades[n] : n \in own }
                 /\ \A k \in 1 .. Len(rows) - 1 :
                       rows[k].executedAt >= rows[k + 1].executedAt
      ]_vars

\* C23 witness: a history of two trades executed at different times was
\* returned, the later one first
C23_Witness ==
    \E i \in DOMAIN calls :
        /\ calls[i].op = "getTradeHistory"
        /\ Len(calls[i].row) = 2
        /\ calls[i].row[1].executedAt > calls[i].row[2].executedAt
        /\ calls[i].row[1].id > calls[i].row[2].id

\* C24: for each account at most 60 requests are accepted in any 60-second
\* sliding window, and a further request inside the window is rejected with
\* RATE_LIMITED.
C24_SixtyPerMinute ==
    [][ calls' # <<>> =>
          LET c == calls'[1]
              inWindow(ws) == { k \in DOMAIN ws[c.accountId] :
                                   ws[c.accountId][k] >= c.at - 60000 }
          IN  /\ Cardinality(inWindow(windows')) <= 60
              /\ Cardinality(inWindow(windows)) >= 60 => c.res = "RATE_LIMITED"
      ]_vars

\* the checks of the log the limiter accepted for an account with a
\* timestamp in [from, to]
Accepted(log, accountId, from, to) ==
    { k \in DOMAIN log : /\ log[k].accountId = accountId
                         /\ log[k].res = "ok"
                         /\ log[k].at >= from /\ log[k].at <= to }

\* C29: for a RateLimiter(maxRequests, windowMs), every account and every
\* time t, at most maxRequests checks were accepted with timestamps in
\* [t - windowMs, t]; a check at time now is rejected exactly when
\* maxRequests accepted timestamps >= now - windowMs remain for the account;
\* a check by one account leaves the window of every other account as it was.
C29_SlidingWindow ==
    [][ Len(calls') = Len(calls) + 1 =>
          LET c == calls'[Len(calls')]
          IN  /\ \A a \in Accounts, t \in 0 .. MaxTime :
                    Cardinality(Accepted(calls', a, t - LimiterWindow, t)) <= LimiterMax
              /\ c.res = "RATE_LIMITED"
                    <=> Cardinality(Accepted(calls, c.accountId,
                                             c.at - LimiterWindow, c.at)) >= LimiterMax
              /\ c.res \in {"ok", "RATE_LIMITED"}
              /\ \A a \in Accounts \ {c.accountId} : windows'[a] = windows[a]
      ]_vars

\* C29 witness: an account was rejected at its limit while the other account
\* was accepted, and was accepted again once its timestamps left the window
C29_Witness ==
    \E i, j, k \in DOMAIN calls :
        /\ i < j /\ j < k
        /\ calls[i].res = "RATE_LIMITED"
        /\ calls[j].accountId # calls[i].accountId
        /\ calls[j].res = "ok" /\ calls[j].at = calls[i].at
        /\ calls[k].accountId = calls[i].accountId
        /\ calls[k].res = "ok" /\ calls[k].at > calls[i].at

\* C25: POST /api/v1/trades is idempotent per X-Idempotency-Key: the requests
\* of an account that carry the same key resolve to the same trade, so at
\* most one trade row is committed per key.
C25_IdempotentPerKey ==
    \A a \in Accounts, k \in IdempotencyKeys :
        Cardinality(UNION { calls[i].tradeIds :
                              i \in { n \in DOMAIN calls :
                                         /\ calls[n].accountId = a
                                         /\ calls[n].idempotencyKey = k } }) <= 1

\* C26: for every decimal x >= 0 with at most 8 fractional digits,
\* fromScaled(toScaled(x)) is x rendered with exactly 8 zero-padded
\* fractional digits, and parsePrice(fromScaled(s)) = s for every scaled
\* integer s >= 0.
C26_RoundTrip ==
    \A i \in DOMAIN calls :
        calls[i].op = "roundTrip" =>
            /\ calls[i].back = render(calls[i].scaled)
            /\ calls[i].parsed = calls[i].scaled

\* the largest integer not above n/d, for d # 0
floor(n, d) == IF d > 0 THEN n \div d ELSE (-n) \div (-d)

\* C27: scaledMultiply(a, b) = floor(a*b / 10^8) and, for b # 0,
\* scaledDivide(a, b) = floor(a*10^8 / b) for all scaled integers a, b;
\* scaledDivide(a, 0) fails with a division-by-zero error.
C27_FloorArithmetic ==
    \A i \in DOMAIN calls :
        /\ calls[i].op = "multiply" =>
              calls[i].err = "none" /\ calls[i].value = floor(calls[i].a * calls[i].b, SCALE)
        /\ calls[i].op = "divide" /\ calls[i].b # 0 =>
              calls[i].err = "none" /\ calls[i].value = floor(calls[i].a * SCALE, calls[i].b)
        /\ calls[i].op = "divide" /\ calls[i].b = 0 => calls[i].err = "Division by zero"

\* C28: a market BUY of b at P1 followed by a market SELL of b at P2 on the
\* same pair by the same account, with nothing else traded, leaves the base
\* balance at its starting value, changes the quote balance by exactly
\* floor(b*P2 / 10^8) - floor(b*P1 / 10^8), and leaves every other balance
\* as it was.
C28_BuySellRoundTrip ==
    ( /\ Len(trades) = 2
      /\ trades[1].type = "MARKET" /\ trades[2].type = "MARKET"
      /\ trades[1].side = "BUY" /\ trades[2].side = "SELL"
      /\ trades[1].accountId = trades[2].accountId
      /\ trades[1].baseCurrency = trades[2].baseCurrency
      /\ trades[1].quoteCurrency = trades[2].quoteCurrency
      /\ trades[1].baseAmount = trades[2].baseAmount )
    => LET a  == trades[1].accountId
           b  == trades[1].baseAmount
           P1 == trades[1].price
           P2 == trades[2].price
       IN  /\ getBalance(balances, a, trades[1].baseCurrency)
                 = getBalance(InitialRows, a, trades[1].baseCurrency)
           /\ getBalance(balances, a, trades[1].quoteCurrency)
                 = getBalance(InitialRows, a, trades[1].quoteCurrency)
                   + (b * P2) \div SCALE - (b * P1) \div SCALE
           /\ \A x \in Accounts, c \in CURRENCIES :
                 (x # a \/ c \notin {trades[1].baseCurrency, trades[1].quoteCurrency})
                 => getBalance(balances, x, c) = getBalance(InitialRows, x, c)

\* C28 witness: a BUY and a SELL of the same amount at two different prices,
\* both requested by market calls that succeeded
C28_Witness ==
    /\ Len(trades) = 2
    /\ trades[1].type = "MARKET" /\ trades[2].type = "MARKET"
    /\ trades[1].side = "BUY" /\ trades[2].side = "SELL"
    /\ trades[1].accountId = trades[2].accountId
    /\ trades[1].baseCurrency = trades[2].baseCurrency
    /\ trades[1].baseAmount = trades[2].baseAmount
    /\ trades[1].price # trades[2].price
    /\ (trades[1].baseAmount * trades[1].price) % SCALE # 0
    /\ Cardinality({ i \in DOMAIN calls : calls[i].op = "market" /\ calls[i].res = "ok" }) = 2

C31_NoTradeAfterDeadline ==
    [][ /\ \A n \in DOMAIN trades' :
              trades'[n].type = "RFQ"
                 => trades'[n].executedAt <= quotes'[trades'[n].quoteId].expiresAt
        /\ \A i \in DOMAIN calls :
              ( /\ Finished(i) /\ calls[i].op = "rfq"
                /\ calls[i].row # <<>>
                /\ now > calls[i].row[1].expiresAt )
              => UNCHANGED <<balances, trades>> /\ calls'[i].res # "ok"
      ]_vars

\* C32: a quote is created with status OPEN, createdAt the time of the call,
\* baseAmount = toScaled(amount) and the price the source gave; every stored
\* quote has, in every state, expiresAt = createdAt + QUOTE_TTL_MS and
\* quoteAmount = floor(baseAmount * price / 10^8).
C32_QuoteAsCreated ==
    [][ /\ \A q \in DOMAIN quotes' :
              /\ quotes'[q].expiresAt = quotes'[q].createdAt + QUOTE_TTL_MS
              /\ quotes'[q].quoteAmount * SCALE <= quotes'[q].baseAmount * quotes'[q].price
              /\ quotes'[q].baseAmount * quotes'[q].price < (quotes'[q].quoteAmount + 1) * SCALE
        /\ Len(quotes') = Len(quotes) + 1 =>
              LET q == quotes'[Len(quotes')]
                  c == calls'[Len(calls')]
              IN  /\ c.op = "createQuote" /\ c.res = "ok" /\ c.quoteId = q.id
                  /\ q.status = "OPEN"
                  /\ q.createdAt = now
                  /\ q.accountId = c.accountId
                  /\ q.baseAmount * 10 <= c.req.amount + 5
                  /\ c.req.amount + 5 < (q.baseAmount + 1) * 10
                  /\ q.price = c.price
      ]_vars

\* C32 witness: a quote created after time 0 whose product baseAmount * price
\* is not a multiple of 10^8 is stored with a status other than OPEN
C32_Witness ==
    \E q \in DOMAIN quotes :
        /\ quotes[q].createdAt > 0
        /\ quotes[q].status # "OPEN"
        /\ (quotes[q].baseAmount * quotes[q].price) % SCALE # 0

\* C33: there is at most one balance row per (account, currency); a row that
\* exists stays, with its id, account and currency, in every later state; a
\* row appears only in a step that commits a trade, as the row the trade
\* credits.
C33_BalanceRows ==
    [][ /\ \A r, r2 \in balances' :
              (r.accountId = r2.accountId /\ r.currency = r2.currency) => r = r2
        /\ \A r \in balances : \E r2 \in balances' :
              r2.id = r.id /\ r2.accountId = r.accountId /\ r2.currency = r.currency
        /\ \A r2 \in balances' :
              (\A r \in balances : r.id # r2.id)
              => /\ Committed
                 /\ r2.accountId = NewTrade.accountId
                 /\ r2.currency = (IF NewTrade.side = "BUY" THEN NewTrade.baseCurrency
                                                            ELSE NewTrade.quoteCurrency)
      ]_vars

\* C33 witness: a row created by a credit was later debited to 0 and is
\* still there, next to the rows of the start
C33_Witness ==
    /\ Len(trades) = 2
    /\ \E r \in balances :
          /\ \A r0 \in InitialRows : r0.id # r.id
          /\ r.amount = 0
    /\ \A r0 \in InitialRows : \E r \in balances : r.id = r0.id

\* the sets of a key that precede position n of the log
SetsBefore(log, key, n) ==
    { k \in 1 .. n - 1 : log[k].op = "set" /\ log[k].key = key }

\* the last of a non-empty set of positions
Latest(positions) == CHOOSE k \in positions : \A j \in positions : j <= k

\* C34: get(key) returns a value only if that value is the one of the most
\* recent set(key, ...) and the time is <= that set's time + 5000 ms; with an
\* entry past that time get returns null and removes the entry; a lookup
\* whose get returned null sends a request to the source.
C34_NeverStale ==
    [][ \A n \in DOMAIN calls' \ DOMAIN calls :
          calls'[n].op = "get" =>
             LET g    == calls'[n]
                 sets == SetsBefore(calls', g.key, n)
             IN  /\ g.value # Null =>
                       /\ sets # {}
                       /\ g.value = calls'[Latest(sets)].value
                       /\ g.at <= calls'[Latest(sets)].at + 5000
                       /\ cache' = cache
                 /\ (sets # {} /\ g.at > calls'[Latest(sets)].at + 5000) =>
                       /\ g.value = Null
                       /\ g.key \notin DOMAIN cache'
                 /\ g.value = Null =>
                       /\ n + 1 \in DOMAIN calls'
                       /\ calls'[n + 1] = CacheEvent("fetch", g.key, g.at, Null, "pending")
      ]_vars

\* C34 witness: a key was set, served from the cache at the last millisecond
\* of its time, refused one millisecond later, and fetched again
C34_Witness ==
    \E s, h, m \in DOMAIN calls :
        /\ s < h /\ h < m /\ m + 1 \in DOMAIN calls
        /\ calls[s].op = "set"
        /\ calls[h].op = "get" /\ calls[h].key = calls[s].key
        /\ calls[h].value = calls[s].value /\ calls[h].at = calls[s].at + PRICE_CACHE_TTL_MS
        /\ calls[m].op = "get" /\ calls[m].key = calls[s].key
        /\ calls[m].value = Null /\ calls[m].at = calls[s].at + PRICE_CACHE_TTL_MS + 1
        /\ calls[m + 1].op = "fetch"

\* C35: getBestQuote returns, among the quotes of the venues, the minimum ask
\* for a BUY and the maximum bid for a SELL as the price, with the bid and
\* ask of a venue that quotes that price; with the three venues answering it
\* does not fail.
C35_BestQuote ==
    \A i \in DOMAIN calls :
        calls[i].op = "getBestQuote" =>
            LET c  == calls[i]
                qs == { fetchBinance(c.binanceBid, c.binanceAsk),
                        fetchMassiveFX(c.binanceBid, c.binanceAsk),
                        fetchCoinGecko(c.binanceBid, c.binanceAsk) }
            IN  /\ c.best.allQuotes = qs
                /\ \E q \in qs : /\ q.bid = c.best.bidPrice /\ q.ask = c.best.askPrice
                                  /\ q.source = c.best.source
                /\ c.side = "BUY" => /\ c.best.price = c.best.askPrice
                                      /\ \A q \in qs : c.best.price <= q.ask
                /\ c.side = "SELL" => /\ c.best.price = c.best.bidPrice
                                       /\ \A q \in qs : c.best.price >= q.bid

\* C35 witness: a routed BUY and a routed SELL in which the venues quote
\* three different asks, or three different bids
C35_Witness ==
    \E i \in DOMAIN calls :
        /\ calls[i].op = "getBestQuote"
        /\ Cardinality({ q.ask : q \in calls[i].best.allQuotes }) = 3
        /\ Cardinality({ q.bid : q \in calls[i].best.allQuotes }) = 3
        /\ calls[i].binanceBid < calls[i].binanceAsk

\* C36: for a negative scaled integer s, fromScaled(s) is "-" followed by
\* fromScaled(-s): the sign prefixes the whole value and the digits are those
\* of the magnitude, for example fromScaled(-150000000) = "-1.50000000".
C36_SignPrefix ==
    \A i \in DOMAIN calls :
        (calls[i].op = "fromScaled" /\ calls[i].scaled < 0) =>
            /\ calls[i].rendered.negative
            /\ ~calls[i].opposite.negative
            /\ calls[i].rendered.integer = calls[i].opposite.integer
            /\ calls[i].rendered.fraction = calls[i].opposite.fraction

\* the rendering of -150000000 is "-2.50000000"
C36_MinusOneAndAHalf ==
    \A i \in DOMAIN calls :
        (calls[i].op = "fromScaled" /\ calls[i].scaled = -150000000) =>
            /\ calls[i].rendered = [negative |-> TRUE, integer |-> <<2>>,
                                    fraction |-> <<5, 0, 0, 0, 0, 0, 0, 0>>]
            /\ calls[i].opposite = [negative |-> FALSE, integer |-> <<1>>,
                                    fraction |-> <<5, 0, 0, 0, 0, 0, 0, 0>>]

\* the last request had equal currencies or an amount that is not positive
InvalidBody(c) == c.req.baseCurrency = c.req.quoteCurrency \/ c.req.amount <= 0

\* C37: a quote-creation or market-trade request with baseCurrency =
\* quoteCurrency or with amount <= 0 makes no price lookup, creates no quote,
\* commits no trade and changes no balance; when it is authenticated and
\* within the rate limit its response is the validation error.
C37_RejectedAtBoundary ==
    [][\A i \in DOMAIN calls' :
          (calls'[i].op \in Routes /\ InvalidBody(calls'[i])) =>
              /\ calls'[i].lookups = 0
              /\ quotes' = quotes /\ trades' = trades /\ balances' = balances
              /\ calls'[i].res \in {"VALIDATION_ERROR", "UNAUTHORIZED", "RATE_LIMITED"}
              /\ (calls'[i].header # "" /\ Len(windows[calls'[i].header]) < RATE_LIMIT_MAX)
                     => calls'[i].res = "VALIDATION_ERROR"]_vars

\* C37 witness: after a quote was created and a trade committed, a request
\* with a non-positive amount and one with equal currencies were answered
\* with the validation error
C37_Witness ==
    /\ Len(quotes) > 0 /\ Len(trades) > 0
    /\ \E i \in DOMAIN calls :
          /\ calls[i].op \in Routes
          /\ InvalidBody(calls[i])
          /\ calls[i].res = "VALIDATION_ERROR"

\* the step leaves quotes, trades and balances as they were
StoreUntouched == quotes' = quotes /\ trades' = trades /\ balances' = balances

\* C39: in the authed wrapper the account is extracted first, then the rate
\* limit is checked, then the handler runs.  A request answered UNAUTHORIZED
\* or RATE_LIMITED makes no price lookup, leaves the store as it was and
\* adds no timestamp to any window; a request with an account whose window
\* is full is answered RATE_LIMITED whatever its body; every other request
\* with an account adds exactly one timestamp, the current time, to the
\* window of its account and to no other, also when its handler fails.
C39_AuthedOrder ==
    [][\A i \in DOMAIN calls' :
          calls'[i].op \in Routes =>
              LET c == calls'[i]
              IN  /\ c.header = "" <=> c.res = "UNAUTHORIZED"
                  /\ c.res \in {"UNAUTHORIZED", "RATE_LIMITED"} =>
                        /\ c.lookups = 0
                        /\ StoreUntouched
                        /\ windows' = windows
                  /\ c.header # "" =>
                        /\ Len(windows[c.header]) >= RATE_LIMIT_MAX <=> c.res = "RATE_LIMITED"
                        /\ c.res # "RATE_LIMITED" =>
                              windows' = [windows EXCEPT ![c.header] = Append(@, now)]]_vars

\* C39 witness: a window holds RATE_LIMIT_MAX timestamps, the last request
\* was answered RATE_LIMITED, and among the requests counted are trades that
\* were committed and requests whose handler failed
C39_Witness ==
    /\ \E i \in DOMAIN calls : calls[i].op \in Routes /\ calls[i].res = "RATE_LIMITED"
    /\ Len(windows["acc1"]) = RATE_LIMIT_MAX
    /\ Len(trades) + Len(quotes) < RATE_LIMIT_MAX
    /\ Len(trades) > 0

\* a request passed the rate limit and its handler failed
C39_HandlerFailed ==
    \E i \in DOMAIN calls :
        /\ calls[i].op \in Routes
        /\ calls[i].res \in {"VALIDATION_ERROR", "INSUFFICIENT_BALANCE"}
        /\ Len(windows["acc1"]) > Len(trades) + Len(quotes)

\* C38: every committed trade and every created quote has baseAmount > 0,
\* quoteAmount > 0 and price > 0, whenever the request amount is positive
\* and the source's price is positive.
C38_PositiveAmounts ==
    /\ \A n \in DOMAIN trades :
          trades[n].baseAmount > 0 /\ trades[n].quoteAmount > 0 /\ trades[n].price > 0
    /\ \A q \in DOMAIN quotes :
          quotes[q].baseAmount > 0 /\ quotes[q].quoteAmount > 0 /\ quotes[q].price > 0

\* no committed trade moves a positive amount on one leg and zero on the other
C38_NoFreeLeg ==
    \A n \in DOMAIN trades : (trades[n].baseAmount = 0) <=> (trades[n].quoteAmount = 0)

\* no committed trade has a zero base amount
C38_NoEmptyTrade ==
    \A n \in DOMAIN trades : trades[n].baseAmount > 0

\* the price of every trade and quote is positive
C38_PositivePrice ==
    /\ \A n \in DOMAIN trades : trades[n].price > 0
    /\ \A q \in DOMAIN quotes : quotes[q].price > 0

\* a MARKET trade carries no quote id (0 stands for null)
MarketUnlinked == \A n \in DOMAIN trades : trades[n].type = "MARKET" => trades[n].quoteId = 0

\* an RFQ trade refers to a stored quote of its account, side and currencies
RfqLinked ==
    \A n \in DOMAIN trades :
        trades[n].type = "RFQ" =>
            /\ trades[n].quoteId \in DOMAIN quotes
            /\ quotes[trades[n].quoteId].accountId = trades[n].accountId
            /\ quotes[trades[n].quoteId].side = trades[n].side
            /\ quotes[trades[n].quoteId].baseCurrency = trades[n].baseCurrency
            /\ quotes[trades[n].quoteId].quoteCurrency = trades[n].quoteCurrency

\* the quote an RFQ trade refers to is stored as EXECUTED
RfqQuoteExecuted ==
    \A n \in DOMAIN trades :
        (trades[n].type = "RFQ" /\ trades[n].quoteId \in DOMAIN quotes) =>
            quotes[trades[n].quoteId].status = "EXECUTED"

\* C40: in every reachable state each MARKET trade has quoteId null, and each
\* RFQ trade has the quoteId of a stored quote of the same account, side and
\* currencies whose status is EXECUTED.
C40_TradeQuoteLink == MarketUnlinked /\ RfqLinked /\ RfqQuoteExecuted

\* the links themselves, without the status of the quote
C40_Links == MarketUnlinked /\ RfqLinked

====
